---- MODULE Spec2Model ----
(***************************************************************************)
(* A model of bladeski/basic-template: the offline cache worker (sw.js),   *)
(* its cache-key normalisation and its message listener, the page          *)
(* controller that registers the worker (indexController.js), and the      *)
(* component base with its example component (BaseComponent.ts).           *)
(*                                                                         *)
(* Strings of the program are sequences of one-character strings, so that  *)
(* startsWith, includes and the regular expressions of sw.js are computed  *)
(* character by character.                                                 *)
(***************************************************************************)
EXTENDS Integers, Sequences, FiniteSets, TLC

VARIABLES
    phase,        \* worker lifecycle: "parsed" -> "installed" -> "activated"
    caches,       \* CacheStorage: sequence (creation order) of [name, entries]
    atActivate,   \* ghost: the bucket names caches.keys() returned on activate
    purged,       \* ghost: the bucket names the activate handler deleted
    reqs,         \* the fetch events: one record per intercepted request
                  \*   (fetched is the log of its network attempts)
    nIn,          \* normalisation run: its input (base, decorations, kind)
    nKeys,        \* normalisation run: the keys of the successive passes
    page,         \* the page controller's session (indexController.js)
    msgs,         \* the worker's message listener: the events it handled
    comp,         \* one component instance (BaseComponent.ts) and its document
    gulp          \* one invocation of the build tool (gulpfile)

vars == <<phase, caches, atActivate, purged, reqs, nIn, nKeys, page, msgs, comp,
         gulp>>

(***************************************************************************)
(* Bounds of the model.                                                    *)
(***************************************************************************)
\* fetch events intercepted in one run (they may overlap)
MaxRequests == 2
\* successive normalisation passes applied to one URL
MaxPasses == 2
\* decorations appended to one base URL
MaxDecorations == 2
\* controllerchange events delivered to one page session
MaxControllerChanges == 2
\* workers the registration holds during one page session
MaxWorkers == 2
\* message events delivered to the worker
MaxMessages == 2
\* attribute changes and setProp calls on one component
MaxAttrOps == 3
\* attachments, renders and assignments on one component
MaxRenderOps == 5
\* event:method pairs in one data-action attribute
MaxPairs == 2
\* attachments, renders and dispatched events on one component with actions
MaxActionOps == 3
\* attachments and method calls on one ExampleComponent
MaxExampleOps == 4
\* operations of any kind on one component
MaxBindOps == 3

(***************************************************************************)
(* Strings.                                                                *)
(***************************************************************************)
Digits == {"0", "1", "2", "3", "4", "5", "6", "7", "8", "9"}

\* String.prototype.startsWith
startsWith(s, p) == Len(s) >= Len(p) /\ SubSeq(s, 1, Len(p)) = p

\* Array.prototype.includes
includes(arr, x) == \E i \in DOMAIN arr : arr[i] = x

\* "basic-static-v1"
staticCacheName ==
    <<"b","a","s","i","c","-","s","t","a","t","i","c","-","v","1">>

\* "basic-content-imgs"
contentImgsCache ==
    <<"b","a","s","i","c","-","c","o","n","t","e","n","t","-","i","m","g","s">>

allCaches == <<staticCacheName, contentImgsCache>>

\* 'basic-', the prefix the activate listener tests
cachePrefix == <<"b","a","s","i","c","-">>

\* cache.addAll([]) of the install listener: the seed list
installSeed == <<>>

(***************************************************************************)
(* URLs and requests.  A request is [origin, pathname]; request.url is the *)
(* origin followed by the pathname, and new URL(request.url) gives the two *)
(* parts back.                                                             *)
(***************************************************************************)
\* location.origin of the worker
locationOrigin == <<"h","t","t","p","s",":","/","/","a">>

\* another origin
otherOrigin == <<"h","t","t","p","s",":","/","/","b">>

requestUrl(request) == request.origin \o request.pathname

RootPath == <<"/">>
ImgPrefix == <<"/","i","m","g","/">>
ScriptsPrefix == <<"/","s","c","r","i","p","t","s","/">>

\* '/skeleton' handed to caches.match resolves against the worker's origin
skeletonUrl == locationOrigin \o <<"/","s","k","e","l","e","t","o","n">>

ImgBase == <<"/","i","m","g","/","p">>
ScriptBase == <<"/","s","c","r","i","p","t","s","/","m">>
AboutPath == <<"/","a","b","o","u","t">>
\* '/img' without the trailing slash: not under /img/
ImgNoSlashPath == <<"/","i","m","g">>

Px8 == <<"-","8","p","x",".","j","p","g">>
Px40 == <<"-","4","0","p","x",".","j","p","g">>
X1 == <<"-","1","x",".","j","s">>
X2 == <<"-","2","x",".","j","s">>

\* the pathnames of the requests the page issues
Pathnames ==
    { RootPath, ImgBase \o Px8, ImgBase \o Px40, ScriptBase \o X1,
      AboutPath, ImgNoSlashPath }

\* the requests the worker may intercept
Requests ==
    [origin : {locationOrigin}, pathname : Pathnames]
      \cup [origin : {otherOrigin}, pathname : {RootPath, ImgBase \o Px8, ScriptBase \o X1}]

(***************************************************************************)
(* Responses.  Every value a respondWith promise can settle with is a      *)
(* record of the same shape.                                               *)
(***************************************************************************)
\* caches.match found nothing: the promise resolves with undefined
Undefined == [type |-> "undefined", url |-> <<>>, from |-> 0]

\* fetch() rejected: the respondWith promise rejects
NetworkFailure == [type |-> "failure", url |-> <<>>, from |-> 0]

\* nothing has answered the event yet
Pending == [type |-> "pending", url |-> <<>>, from |-> 0]

\* the response the network gives request r for url (clone() copies it)
NetworkResponse(url, r) == [type |-> "response", url |-> url, from |-> r]

\* a response some earlier code of the origin stored
LegacyResponse(url) == [type |-> "response", url |-> url, from |-> 0]

(***************************************************************************)
(* CacheStorage and Cache.                                                 *)
(***************************************************************************)
NoEntries == <<>>

hasCache(cs, name) == \E i \in DOMAIN cs : cs[i].name = name

\* caches.keys()
cachesKeys(cs) == [i \in DOMAIN cs |-> cs[i].name]

\* caches.open(name): the bucket is created when it does not exist
cachesOpen(cs, name) ==
    IF hasCache(cs, name) THEN cs
    ELSE Append(cs, [name |-> name, entries |-> NoEntries])

\* caches.delete(name)
cachesDelete(cs, name) == SelectSeq(cs, LAMBDA b : b.name # name)

\* cache.match(url) on one bucket's entries
cacheMatch(entries, url) ==
    IF url \in DOMAIN entries THEN entries[url] ELSE Undefined

\* caches.match(url): the first bucket, in creation order, that holds url
cachesMatch(cs, url) ==
    LET hits == {i \in DOMAIN cs : url \in DOMAIN cs[i].entries}
    IN  IF hits = {} THEN Undefined
        ELSE LET first == CHOOSE i \in hits : \A j \in hits : i <= j
             IN  cs[first].entries[url]

\* cache.put(url, response) on one bucket's entries
cachePut(entries, url, response) ==
    [k \in DOMAIN entries \cup {url} |->
        IF k = url THEN response ELSE entries[k]]

\* cache.put on the bucket called name (the Cache object caches.open gave)
cachesPut(cs, name, url, response) ==
    [i \in DOMAIN cs |->
        IF cs[i].name = name
        THEN [cs[i] EXCEPT !.entries = cachePut(@, url, response)]
        ELSE cs[i]]

\* cache.addAll(urls): each url is fetched and stored
RECURSIVE cacheAddAll(_, _)
cacheAddAll(entries, urls) ==
    IF urls = <<>> THEN entries
    ELSE cacheAddAll(cachePut(entries, Head(urls), LegacyResponse(Head(urls))),
                     Tail(urls))

entriesOf(cs, name) ==
    IF hasCache(cs, name)
    THEN cs[CHOOSE i \in DOMAIN cs : cs[i].name = name].entries
    ELSE NoEntries

(***************************************************************************)
(* Cache-key normalisation: request.url.replace(/-\d+px\.jpg$/, '') and    *)
(* request.url.replace(/-\dx\.js$/, '').  The regular expression is run as *)
(* the engine runs it: the match is the leftmost position from which the   *)
(* whole pattern, the end anchor included, matches; it is replaced by ''.  *)
(***************************************************************************)
PxJpg == <<"p","x",".","j","p","g">>
XJs == <<"x",".","j","s">>

\* /-\d*px\.jpg$/: a pattern that lets the digits be absent
imgPatternAtNoDigits(s, i) ==
    /\ s[i] = "-"
    /\ \E j \in i..Len(s) :
          /\ \A k \in (i + 1)..j : s[k] \in Digits
          /\ SubSeq(s, j + 1, Len(s)) = PxJpg

\* /-\d+px\.jpg$/ matches s from position i
imgPatternAt(s, i) ==
    /\ s[i] = "-"
    /\ \E j \in (i + 1)..Len(s) :
          /\ \A k \in (i + 1)..j : s[k] \in Digits
          /\ SubSeq(s, j + 1, Len(s)) = PxJpg

\* /-\dx\.js$/ matches s from position i
scriptPatternAt(s, i) ==
    /\ s[i] = "-"
    /\ i + 1 <= Len(s)
    /\ s[i + 1] \in Digits
    /\ SubSeq(s, i + 2, Len(s)) = XJs

\* the leftmost position of a set of match positions
leftmost(starts) == CHOOSE i \in starts : \A j \in starts : i <= j

\* a key that keeps the decoration
imgStorageUrlDecorated(url) == url

\* storageUrl of serveImg
imgStorageUrl(url) ==
    LET starts == {i \in 1..Len(url) : imgPatternAt(url, i)}
    IN  IF starts = {} THEN url ELSE SubSeq(url, 1, leftmost(starts) - 1)

\* storageUrl of serveScript
scriptStorageUrl(url) ==
    LET starts == {i \in 1..Len(url) : scriptPatternAt(url, i)}
    IN  IF starts = {} THEN url ELSE SubSeq(url, 1, leftmost(starts) - 1)

(***************************************************************************)
(* The worker's state before it is installed.  The origin's cache storage  *)
(* outlives workers, so buckets of earlier deployments and of other code   *)
(* of the origin may exist, with what they stored.                         *)
(***************************************************************************)
\* "basic-static-v0": the previous deployment's static bucket
basicStaticV0 ==
    <<"b","a","s","i","c","-","s","t","a","t","i","c","-","v","0">>

\* "other-app-cache": a bucket of other code of the origin
otherAppCache ==
    <<"o","t","h","e","r","-","a","p","p","-","c","a","c","h","e">>

\* "basic-": the prefix and nothing else
basicDash == <<"b","a","s","i","c","-">>

aboutUrl == locationOrigin \o AboutPath
imgBaseUrl == locationOrigin \o ImgBase

\* the buckets that may exist before install, in creation order
PriorBuckets ==
    << [name |-> basicStaticV0,
        entries |-> cachePut(cachePut(NoEntries, skeletonUrl, LegacyResponse(skeletonUrl)),
                             aboutUrl, LegacyResponse(aboutUrl))],
       [name |-> otherAppCache,
        entries |-> cachePut(NoEntries, aboutUrl, LegacyResponse(aboutUrl))],
       [name |-> contentImgsCache,
        entries |-> cachePut(NoEntries, imgBaseUrl, LegacyResponse(imgBaseUrl))],
       [name |-> staticCacheName,
        entries |-> cachePut(NoEntries, skeletonUrl, LegacyResponse(skeletonUrl))],
       [name |-> basicDash, entries |-> NoEntries] >>

\* the sub-sequence of seq at the positions keep
pick(seq, keep) == SelectSeq(seq, LAMBDA b : \E i \in keep : seq[i] = b)

IdleRequest ==
    [pc |-> "idle", request |-> [origin |-> <<>>, pathname |-> <<>>],
     branches |-> <<>>, lookup |-> Pending, fetched |-> <<>>,
     response |-> Pending,
     put |-> [state |-> "none", url |-> <<>>, response |-> Pending]]

InitWorker ==
    /\ phase = "parsed"
    /\ \E keep \in SUBSET DOMAIN PriorBuckets : caches = pick(PriorBuckets, keep)
    /\ atActivate = {}
    /\ purged = {}
    /\ reqs = [r \in 1..MaxRequests |-> IdleRequest]

(***************************************************************************)
(* The install and activate listeners.                                     *)
(***************************************************************************)
\* install: caches.open(staticCacheName).then(cache => cache.addAll([]))
installListener(cs) ==
    LET opened == cachesOpen(cs, staticCacheName)
    IN  [i \in DOMAIN opened |->
            IF opened[i].name = staticCacheName
            THEN [opened[i] EXCEPT !.entries = cacheAddAll(@, installSeed)]
            ELSE opened[i]]

\* a filter that forgets the allow-list
activateFilterPrefixOnly(cacheName) == startsWith(cacheName, cachePrefix)

\* the filter of the activate listener
activateFilter(cacheName) ==
    startsWith(cacheName, cachePrefix) /\ ~includes(allCaches, cacheName)

\* Promise.all(cacheNames.filter(...).map(caches.delete))
RECURSIVE deleteAll(_, _)
deleteAll(cs, names) ==
    IF names = <<>> THEN cs
    ELSE deleteAll(cachesDelete(cs, Head(names)), Tail(names))

activateListener(cs) ==
    deleteAll(cs, SelectSeq(cachesKeys(cs), activateFilter))

Install ==
    /\ phase = "parsed"
    /\ phase' = "installed"
    /\ caches' = installListener(caches)
    /\ UNCHANGED <<atActivate, purged, reqs, nIn, nKeys, page, msgs, comp, gulp>>

Activate ==
    /\ phase = "installed"
    /\ phase' = "activated"
    /\ caches' = activateListener(caches)
    /\ atActivate' = {caches[i].name : i \in DOMAIN caches}
    /\ purged' = {caches[i].name : i \in DOMAIN caches}
                    \ {caches'[i].name : i \in DOMAIN caches'}
    /\ UNCHANGED <<reqs, nIn, nKeys, page, msgs, comp, gulp>>

(***************************************************************************)
(* The fetch listener.  fetchListener gives the branches that call         *)
(* event.respondWith for a request, in the order they call it.             *)
(***************************************************************************)
\* a listener that routes by pathname alone
fetchListenerAnyOrigin(request) ==
    IF request.pathname = RootPath THEN <<"root">>
    ELSE IF startsWith(request.pathname, ImgPrefix) THEN <<"img">>
    ELSE IF startsWith(request.pathname, ScriptsPrefix) THEN <<"script">>
    ELSE <<"fallback">>

fetchListener(request) ==
    IF request.origin = locationOrigin /\ request.pathname = RootPath
    THEN <<"root">>
    ELSE IF request.origin = locationOrigin
            /\ startsWith(request.pathname, ImgPrefix)
    THEN <<"img">>
    ELSE IF request.origin = locationOrigin
            /\ startsWith(request.pathname, ScriptsPrefix)
    THEN <<"script">>
    ELSE <<"fallback">>

\* the branch whose promise answers the event
branchOf(q) == IF q.branches = <<>> THEN "none" ELSE Head(q.branches)

\* the canonical key serveImg / serveScript compute for a request
storageUrlOf(q) ==
    IF branchOf(q) = "img" THEN imgStorageUrl(requestUrl(q.request))
    ELSE scriptStorageUrl(requestUrl(q.request))

\* caches.match('/skeleton') of the root branch
rootMatch(q, cs) ==
    LET response == cachesMatch(cs, skeletonUrl)
    IN  [q EXCEPT !.lookup = response, !.response = response, !.pc = "done"]

\* an image lookup that fetches even on a hit
serveImgMatchAlwaysFetch(q, cs) ==
    LET response == cacheMatch(entriesOf(cs, contentImgsCache), storageUrlOf(q))
    IN  [q EXCEPT !.lookup = response, !.pc = "fetch"]

\* serveImg: cache.match(storageUrl).then(response => response || fetch)
serveImgMatch(q, cs) ==
    LET response == cacheMatch(entriesOf(cs, contentImgsCache), storageUrlOf(q))
    IN  IF response # Undefined
        THEN [q EXCEPT !.lookup = response, !.response = response, !.pc = "done"]
        ELSE [q EXCEPT !.lookup = response, !.pc = "fetch"]

\* a script lookup that answers from the cache on a hit
serveScriptMatchCacheFirst(q, cs) ==
    LET response == cacheMatch(entriesOf(cs, contentImgsCache), storageUrlOf(q))
    IN  IF response # Undefined
        THEN [q EXCEPT !.lookup = response, !.response = response, !.pc = "done"]
        ELSE [q EXCEPT !.lookup = response, !.pc = "fetch"]

\* serveScript: the lookup's result is dropped, the fetch always follows
serveScriptMatch(q, cs) ==
    LET response == cacheMatch(entriesOf(cs, contentImgsCache), storageUrlOf(q))
    IN  [q EXCEPT !.lookup = response, !.pc = "fetch"]

\* fallback: caches.match(event.request).then(response => response || fetch)
fallbackMatch(q, cs) ==
    LET response == cachesMatch(cs, requestUrl(q.request))
    IN  IF response # Undefined
        THEN [q EXCEPT !.lookup = response, !.response = response, !.pc = "done"]
        ELSE [q EXCEPT !.lookup = response, !.pc = "fetch"]

\* a fetch step that hands every request the response fetched for request 1
serveFetchedShared(q, r, ok) ==
    LET url == requestUrl(q.request)
        networkResponse == NetworkResponse(url, 1)
    IN  IF ok
        THEN [q EXCEPT !.fetched = Append(@, [url |-> url, ok |-> TRUE]),
                       !.put = [state |-> "pending", url |-> storageUrlOf(q),
                                response |-> networkResponse],
                       !.response = networkResponse,
                       !.pc = "done"]
        ELSE [q EXCEPT !.fetched = Append(@, [url |-> url, ok |-> FALSE]),
                       !.response = NetworkFailure,
                       !.pc = "done"]

\* a fetch step that tries the network a second time after a failure
serveFetchedRetry(q, r, ok) ==
    LET url == requestUrl(q.request)
        networkResponse == NetworkResponse(url, r)
    IN  IF ok
        THEN [q EXCEPT !.fetched = Append(@, [url |-> url, ok |-> TRUE]),
                       !.put = [state |-> "pending", url |-> storageUrlOf(q),
                                response |-> networkResponse],
                       !.response = networkResponse,
                       !.pc = "done"]
        ELSE [q EXCEPT !.fetched = @ \o << [url |-> url, ok |-> FALSE],
                                           [url |-> url, ok |-> FALSE] >>,
                       !.response = NetworkFailure,
                       !.pc = "done"]

\* serveImg / serveScript: fetch(request).then(networkResponse => {
\*     cache.put(storageUrl, networkResponse.clone()); return networkResponse })
\* a rejected fetch skips the callback and rejects the chain
serveFetched(q, r, ok) ==
    LET url == requestUrl(q.request)
        networkResponse == NetworkResponse(url, r)
    IN  IF ok
        THEN [q EXCEPT !.fetched = Append(@, [url |-> url, ok |-> TRUE]),
                       !.put = [state |-> "pending", url |-> storageUrlOf(q),
                                response |-> networkResponse],
                       !.response = networkResponse,
                       !.pc = "done"]
        ELSE [q EXCEPT !.fetched = Append(@, [url |-> url, ok |-> FALSE]),
                       !.response = NetworkFailure,
                       !.pc = "done"]

\* a fallback that stores what it fetched
fallbackFetchedStoring(q, r, ok) ==
    LET url == requestUrl(q.request)
    IN  [q EXCEPT !.fetched = Append(@, [url |-> url, ok |-> ok]),
                  !.response = IF ok THEN NetworkResponse(url, r) ELSE NetworkFailure,
                  !.put = IF ok THEN [state |-> "pending", url |-> url,
                                      response |-> NetworkResponse(url, r)]
                          ELSE @,
                  !.pc = "done"]

\* fallback: fetch(event.request), its result handed to the page as it is
fallbackFetched(q, r, ok) ==
    LET url == requestUrl(q.request)
    IN  [q EXCEPT !.fetched = Append(@, [url |-> url, ok |-> ok]),
                  !.response = IF ok THEN NetworkResponse(url, r) ELSE NetworkFailure,
                  !.pc = "done"]

\* a fetch event: the listener runs to its respondWith call
FetchEvent(r) ==
    /\ phase = "activated"
    /\ reqs[r].pc = "idle"
    /\ \A o \in 1..(r - 1) : reqs[o].pc # "idle"
    /\ \E request \in Requests :
          LET branches == fetchListener(request)
          IN  reqs' = [reqs EXCEPT ![r] =
                  [@ EXCEPT !.request = request,
                            !.branches = branches,
                            !.pc = IF Head(branches) \in {"img", "script"}
                                   THEN "open" ELSE "match"]]
    /\ UNCHANGED <<phase, caches, atActivate, purged, nIn, nKeys, page, msgs, comp, gulp>>

\* caches.open(contentImgsCache) of serveImg / serveScript resolves
CacheOpen(r) ==
    /\ reqs[r].pc = "open"
    /\ caches' = cachesOpen(caches, contentImgsCache)
    /\ reqs' = [reqs EXCEPT ![r].pc = "match"]
    /\ UNCHANGED <<phase, atActivate, purged, nIn, nKeys, page, msgs, comp, gulp>>

\* the cache lookup of the branch resolves and its callback runs
CacheMatch(r) ==
    /\ reqs[r].pc = "match"
    /\ reqs' = [reqs EXCEPT ![r] =
          CASE branchOf(@) = "root" -> rootMatch(@, caches)
            [] branchOf(@) = "img" -> serveImgMatch(@, caches)
            [] branchOf(@) = "script" -> serveScriptMatch(@, caches)
            [] OTHER -> fallbackMatch(@, caches)]
    /\ UNCHANGED <<phase, caches, atActivate, purged, nIn, nKeys, page, msgs, comp, gulp>>

\* the live fetch settles: with a response, or rejected
NetFetch(r) ==
    /\ reqs[r].pc = "fetch"
    /\ \E ok \in BOOLEAN :
          reqs' = [reqs EXCEPT ![r] =
              IF branchOf(@) \in {"img", "script"}
              THEN serveFetched(@, r, ok)
              ELSE fallbackFetched(@, r, ok)]
    /\ UNCHANGED <<phase, caches, atActivate, purged, nIn, nKeys, page, msgs, comp, gulp>>

\* the cache.put a request started completes: the entry is written
PutComplete(r) ==
    /\ reqs[r].put.state = "pending"
    /\ caches' = cachesPut(caches, contentImgsCache,
                           reqs[r].put.url, reqs[r].put.response)
    /\ reqs' = [reqs EXCEPT ![r].put.state = "done"]
    /\ UNCHANGED <<phase, atActivate, purged, nIn, nKeys, page, msgs, comp, gulp>>

NextWorker ==
    \/ Install
    \/ Activate
    \/ \E r \in 1..MaxRequests : FetchEvent(r)
    \/ \E r \in 1..MaxRequests : CacheOpen(r)
    \/ \E r \in 1..MaxRequests : CacheMatch(r)
    \/ \E r \in 1..MaxRequests : NetFetch(r)
    \/ \E r \in 1..MaxRequests : PutComplete(r)

\* the parts of the state the worker does not own
IdleNorm == nIn = [base |-> <<>>, decorations |-> <<>>, kind |-> "none"] /\ nKeys = <<>>
IdlePage == page = [pc |-> "none"]
IdleMsgs == msgs = [pc |-> "none"]
IdleComp == comp = [pc |-> "none"]
IdleGulp == gulp = [pc |-> "none"]

Init == InitWorker /\ IdleNorm /\ IdlePage /\ IdleMsgs /\ IdleComp /\ IdleGulp

Next == NextWorker

Spec == Init /\ [][Next]_vars

(***************************************************************************)
(* Claims about the worker, checked under Spec.                            *)
(***************************************************************************)
bucketNames(cs) == {cs[i].name : i \in DOMAIN cs}

\* every (bucket, key, response) the cache storage holds
allEntries(cs) ==
    UNION { { <<cs[i].name, k, cs[i].entries[k]>> : k \in DOMAIN cs[i].entries }
            : i \in DOMAIN cs }

\* a name that carries the prefix 'basic-' and is not on the allow-list
IsStale(n) ==
    /\ Len(n) >= 6
    /\ <<n[1], n[2], n[3], n[4], n[5], n[6]>> = <<"b","a","s","i","c","-">>
    /\ n \notin {staticCacheName, contentImgsCache}

\* C1: on activate the buckets deleted are exactly those whose name starts
\* with 'basic-' and is not on the allow-list; every allow-listed bucket and
\* every bucket without the prefix that existed still exists afterwards.
C1_PurgeExactlyStale ==
    phase = "activated" =>
        /\ purged = {n \in atActivate : IsStale(n)}
        /\ \A n \in atActivate : IsStale(n) <=> ~hasCache(caches, n)

C1_Witness ==
    /\ phase = "activated"
    /\ {basicStaticV0, basicDash} \subseteq purged
    /\ {staticCacheName, contentImgsCache, otherAppCache} \subseteq atActivate
    /\ {staticCacheName, contentImgsCache, otherAppCache} \subseteq bucketNames(caches)

\* C2: after install and activate every same-origin request for '/' is
\* answered with the stored '/skeleton' response and makes no network fetch.
C2_RootServedFromCache ==
    \A r \in 1..MaxRequests :
        (branchOf(reqs[r]) = "root" /\ reqs[r].pc = "done") =>
            /\ reqs[r].response.type = "response"
            /\ reqs[r].response.url = skeletonUrl
            /\ reqs[r].fetched = <<>>

\* d is a valid image decoration: '-', one or more digits, 'px.jpg'
IsImgDecoration(d) ==
    /\ Len(d) >= 8
    /\ d[1] = "-"
    /\ \A k \in 2..(Len(d) - 6) : d[k] \in Digits
    /\ SubSeq(d, Len(d) - 5, Len(d)) = <<"p","x",".","j","p","g">>

\* d is a valid script decoration: '-', one digit, 'x.js'
IsScriptDecoration(d) ==
    /\ Len(d) = 6
    /\ d[1] = "-"
    /\ d[2] \in Digits
    /\ SubSeq(d, 3, 6) = <<"x",".","j","s">>

\* u1 and u2 are decorated variants of one base URL
ImgVariants(u1, u2) ==
    \E n \in 0..Len(u1) :
        /\ n <= Len(u2)
        /\ SubSeq(u1, 1, n) = SubSeq(u2, 1, n)
        /\ IsImgDecoration(SubSeq(u1, n + 1, Len(u1)))
        /\ IsImgDecoration(SubSeq(u2, n + 1, Len(u2)))

imgEntries == entriesOf(caches, contentImgsCache)

\* the steps of the image branch for request r
C3_Step(r) ==
    LET q == reqs[r]
        q2 == reqs'[r]
        url == requestUrl(q.request)
        key == imgStorageUrl(url)
    IN  branchOf(q) = "img" =>
          /\ (q.pc = "match" /\ q2.pc # "match" /\ key \in DOMAIN imgEntries) =>
                /\ q2.pc = "done"
                /\ q2.response = imgEntries[key]
                /\ q2.fetched = <<>>
                /\ q2.put.state = "none"
          /\ (q.pc = "match" /\ q2.pc # "match" /\ key \notin DOMAIN imgEntries) =>
                /\ q2.pc = "fetch"
                /\ q2.response = Pending
                /\ q2.fetched = <<>>
          /\ (q.pc = "fetch" /\ q2.pc # "fetch") =>
                /\ q2.pc = "done"
                /\ Len(q2.fetched) = 1
                /\ q2.fetched[1].url = url
                /\ q2.fetched[1].ok =>
                      /\ q2.response = NetworkResponse(url, r)
                      /\ q2.put = [state |-> "pending", url |-> key,
                                   response |-> q2.response]
          /\ (q.put.state = "pending" /\ q2.put.state = "done") =>
                /\ key \in DOMAIN entriesOf(caches', contentImgsCache)
                /\ entriesOf(caches', contentImgsCache)[key] = q.put.response
          /\ q.pc = "done" =>
                /\ q2.pc = "done"
                /\ q2.response = q.response
                /\ q2.fetched = q.fetched

\* C3: an image request whose canonical key the content-image bucket holds
\* gets the cached response and makes no fetch; otherwise it makes exactly
\* one fetch of the original request, a clone of the response is stored
\* under the canonical key, and the live response is returned.
C3_ServeImg == [][\A r \in 1..MaxRequests : C3_Step(r)]_vars

C3_Witness ==
    \E r1, r2 \in 1..MaxRequests :
        /\ branchOf(reqs[r1]) = "img" /\ branchOf(reqs[r2]) = "img"
        /\ reqs[r1].pc = "done" /\ reqs[r1].lookup = Undefined
        /\ reqs[r1].put.state = "done"
        /\ reqs[r1].response = NetworkResponse(requestUrl(reqs[r1].request), r1)
        /\ reqs[r2].pc = "done" /\ reqs[r2].lookup.type = "response"
        /\ reqs[r2].response = reqs[r2].lookup
        /\ reqs[r2].fetched = <<>>

\* the lookup of image request r2 when the cache write of a miss on another
\* variant of the same base URL has completed
C4_Step(r2) ==
    LET q == reqs[r2]
        q2 == reqs'[r2]
    IN  (/\ branchOf(q) = "img"
         /\ q.pc = "match" /\ q2.pc # "match"
         /\ \E r1 \in 1..MaxRequests :
               /\ branchOf(reqs[r1]) = "img"
               /\ reqs[r1].put.state = "done"
               /\ requestUrl(reqs[r1].request) # requestUrl(q.request)
               /\ ImgVariants(requestUrl(reqs[r1].request), requestUrl(q.request)))
        => /\ q2.pc = "done"
           /\ q2.fetched = <<>>
           /\ \E r1 \in 1..MaxRequests :
                 /\ reqs[r1].put.state = "done"
                 /\ q2.response = reqs[r1].put.response

\* C4: once a miss on one decorated variant has completed its cache write, a
\* later request for another variant of the same base URL is a cache hit:
\* it is served the stored entry and performs no network fetch.
C4_VariantsShareEntry == [][\A r \in 1..MaxRequests : C4_Step(r)]_vars

C4_Witness ==
    \E r1, r2 \in 1..MaxRequests :
        /\ reqs[r1].request.pathname = ImgBase \o Px8
        /\ reqs[r2].request.pathname = ImgBase \o Px40
        /\ reqs[r1].request.origin = locationOrigin
        /\ reqs[r2].request.origin = locationOrigin
        /\ reqs[r1].put.state = "done"
        /\ reqs[r2].pc = "done"
        /\ reqs[r2].response = reqs[r1].put.response
        /\ reqs[r2].fetched = <<>>

\* the steps of the script branch for request r
C6_Step(r) ==
    LET q == reqs[r]
        q2 == reqs'[r]
        url == requestUrl(q.request)
        key == scriptStorageUrl(url)
    IN  branchOf(q) = "script" =>
          /\ (q.pc = "match" /\ q2.pc # "match") =>
                /\ q2.pc = "fetch"
                /\ q2.response = Pending
                /\ q2.fetched = <<>>
          /\ (q.pc = "fetch" /\ q2.pc # "fetch") =>
                /\ q2.pc = "done"
                /\ Len(q2.fetched) = 1
                /\ q2.fetched[1].url = url
                /\ q2.fetched[1].ok =>
                      /\ q2.response = NetworkResponse(url, r)
                      /\ q2.put = [state |-> "pending", url |-> key,
                                   response |-> q2.response]
          /\ (q.put.state = "pending" /\ q2.put.state = "done") =>
                /\ key \in DOMAIN entriesOf(caches', contentImgsCache)
                /\ entriesOf(caches', contentImgsCache)[key] = q.put.response
          /\ q.pc = "done" =>
                /\ q2.pc = "done"
                /\ q2.response = q.response
                /\ q2.fetched = q.fetched

\* C6: a script request, whether or not its canonical key is cached, makes
\* exactly one live fetch of the original request after the cache lookup,
\* stores a clone under the canonical key in the content-image bucket, and
\* hands the page the live response, never the cached entry.
C6_ServeScript ==
    /\ [][\A r \in 1..MaxRequests : C6_Step(r)]_vars
    /\ [](\A r \in 1..MaxRequests :
            (branchOf(reqs[r]) = "script" /\ reqs[r].pc = "done") =>
                /\ Len(reqs[r].fetched) = 1
                /\ reqs[r].response.type = "response" => reqs[r].response.from = r)

C6_Witness ==
    \E r1, r2 \in 1..MaxRequests :
        /\ branchOf(reqs[r1]) = "script" /\ branchOf(reqs[r2]) = "script"
        /\ reqs[r1].put.state = "done"
        /\ reqs[r2].pc = "done"
        /\ reqs[r2].lookup = reqs[r1].put.response
        /\ reqs[r2].response = NetworkResponse(requestUrl(reqs[r2].request), r2)
        /\ reqs[r2].put.state = "done"
        /\ imgEntries[scriptStorageUrl(requestUrl(reqs[r2].request))]
              = reqs[r2].response

\* the branch the routing order gives a request
ExpectedBranch(request) ==
    LET same == request.origin = locationOrigin
        root == request.pathname = <<"/">>
        img == Len(request.pathname) >= 5
               /\ SubSeq(request.pathname, 1, 5) = <<"/","i","m","g","/">>
        script == Len(request.pathname) >= 9
               /\ SubSeq(request.pathname, 1, 9)
                     = <<"/","s","c","r","i","p","t","s","/">>
    IN  CASE same /\ root -> "root"
          [] same /\ ~root /\ img -> "img"
          [] same /\ ~root /\ ~img /\ script -> "script"
          [] OTHER -> "fallback"

\* C7: every intercepted fetch event is answered by exactly one routing
\* branch, the first that matches in the order root, /img/, /scripts/,
\* fallback; a cross-origin request always takes the fallback branch.
C7_Routing ==
    \A r \in 1..MaxRequests :
        reqs[r].pc # "idle" =>
            /\ Len(reqs[r].branches) = 1
            /\ reqs[r].branches[1] = ExpectedBranch(reqs[r].request)
            /\ reqs[r].request.origin # locationOrigin =>
                  reqs[r].branches[1] = "fallback"

C7_Witness ==
    \E r1, r2 \in 1..MaxRequests :
        /\ reqs[r1].request = [origin |-> otherOrigin, pathname |-> ImgBase \o Px8]
        /\ reqs[r1].branches = <<"fallback">>
        /\ reqs[r2].request = [origin |-> locationOrigin, pathname |-> ImgBase \o Px8]
        /\ reqs[r2].branches = <<"img">>

\* the steps of the fallback and root branches for request r
C8_Step(r) ==
    LET q == reqs[r]
        q2 == reqs'[r]
        url == requestUrl(q.request)
        holders == {i \in DOMAIN caches : url \in DOMAIN caches[i].entries}
    IN  (branchOf(q) \in {"fallback", "root"} /\ q2 # q) =>
          /\ caches' = caches
          /\ q2.put.state = "none"
          /\ (branchOf(q) = "fallback" /\ q.pc = "match" /\ holders # {}) =>
                /\ q2.pc = "done"
                /\ q2.response \in {caches[i].entries[url] : i \in holders}
                /\ q2.fetched = <<>>
          /\ (branchOf(q) = "fallback" /\ q.pc = "match" /\ holders = {}) =>
                /\ q2.pc = "fetch"
                /\ q2.fetched = <<>>
          /\ (branchOf(q) = "fallback" /\ q.pc = "fetch") =>
                /\ q2.pc = "done"
                /\ Len(q2.fetched) = 1
                /\ q2.fetched[1].url = url
                /\ q2.response = IF q2.fetched[1].ok
                                 THEN NetworkResponse(url, r) ELSE NetworkFailure
          /\ q.pc # "done"

\* C8: a fallback request gets the cached match when a bucket holds one,
\* with no fetch, and otherwise the result of one live fetch; neither the
\* fallback nor the root branch creates or modifies a cache bucket.
C8_FallbackFrame == [][\A r \in 1..MaxRequests : C8_Step(r)]_vars

C8_Witness ==
    \E r1, r2 \in 1..MaxRequests :
        /\ branchOf(reqs[r1]) = "fallback" /\ reqs[r1].pc = "done"
        /\ reqs[r1].lookup.type = "response" /\ reqs[r1].fetched = <<>>
        /\ branchOf(reqs[r2]) = "fallback" /\ reqs[r2].pc = "done"
        /\ reqs[r2].lookup = Undefined
        /\ reqs[r2].response = NetworkResponse(requestUrl(reqs[r2].request), r2)

\* request r's live fetch failed
fetchFailed(q) == q.fetched # <<>> /\ ~q.fetched[Len(q.fetched)].ok

\* C9: when a live fetch fails and no cached entry answers the request
\* (image miss, script request, fallback miss), the failure reaches the
\* page, exactly one network attempt was made, and the request writes or
\* changes no cache entry.
C9_FailurePropagates ==
    /\ [](\A r \in 1..MaxRequests :
            fetchFailed(reqs[r]) =>
                /\ reqs[r].pc = "done"
                /\ reqs[r].response = NetworkFailure
                /\ Len(reqs[r].fetched) = 1
                /\ reqs[r].put.state = "none")
    /\ [][\A r \in 1..MaxRequests :
            (reqs'[r] # reqs[r] /\ fetchFailed(reqs'[r])) =>
                allEntries(caches') = allEntries(caches)]_vars

C9_Witness ==
    \E r1, r2 \in 1..MaxRequests :
        /\ branchOf(reqs[r1]) = "img" /\ fetchFailed(reqs[r1])
        /\ reqs[r1].response = NetworkFailure
        /\ branchOf(reqs[r2]) = "script" /\ fetchFailed(reqs[r2])
        /\ reqs[r2].lookup = Undefined
        /\ reqs[r2].response = NetworkFailure

(***************************************************************************)
(* Cache-key normalisation on its own: SpecNorm draws a URL, a base        *)
(* followed by decorations and near-decorations, and applies the key       *)
(* derivation of serveImg or of serveScript to it, pass after pass.        *)
(***************************************************************************)
\* '-px.jpg': no digit
PxNoDigit == <<"-","p","x",".","j","p","g">>
\* '-12x.js': two digits
X12 == <<"-","1","2","x",".","j","s">>
\* '-8px.jpgx': the decoration is not at the end
Px8Tail == <<"-","8","p","x",".","j","p","g","x">>

\* what may follow a base URL
Suffixes == {Px8, Px40, X1, X2, PxNoDigit, X12, Px8Tail}

\* a base that ends in '-' and digits
DigitTailBase == locationOrigin \o <<"/","i","m","g","/","p","-","7">>

Bases == {imgBaseUrl, locationOrigin \o ScriptBase, DigitTailBase}

RECURSIVE concat(_)
concat(seqs) == IF seqs = <<>> THEN <<>> ELSE Head(seqs) \o concat(Tail(seqs))

RECURSIVE SeqsUpTo(_, _)
SeqsUpTo(S, n) ==
    IF n = 0 THEN {<<>>}
    ELSE SeqsUpTo(S, n - 1)
           \cup {Append(t, x) : t \in {u \in SeqsUpTo(S, n - 1) : Len(u) = n - 1},
                                x \in S}

\* the URL of a normalisation run
normUrl == nIn.base \o concat(nIn.decorations)

\* the value the next pass normalises
normCurrent == IF nKeys = <<>> THEN normUrl ELSE nKeys[Len(nKeys)]

InitNorm ==
    /\ nIn \in [base : Bases,
                decorations : SeqsUpTo(Suffixes, MaxDecorations),
                kind : {"img", "script"}]
    /\ nKeys = <<>>

IdleWorker ==
    /\ phase = "parsed"
    /\ caches = <<>>
    /\ atActivate = {}
    /\ purged = {}
    /\ reqs = [r \in 1..MaxRequests |-> IdleRequest]

\* serveImg derives its key from the current value
NormalizeImg ==
    /\ nIn.kind = "img"
    /\ Len(nKeys) < MaxPasses
    /\ nKeys' = Append(nKeys, imgStorageUrl(normCurrent))
    /\ UNCHANGED <<phase, caches, atActivate, purged, reqs, nIn, page, msgs, comp, gulp>>

\* serveScript derives its key from the current value
NormalizeScript ==
    /\ nIn.kind = "script"
    /\ Len(nKeys) < MaxPasses
    /\ nKeys' = Append(nKeys, scriptStorageUrl(normCurrent))
    /\ UNCHANGED <<phase, caches, atActivate, purged, reqs, nIn, page, msgs, comp, gulp>>

NextNorm == NormalizeImg \/ NormalizeScript

NormInit == IdleWorker /\ InitNorm /\ IdlePage /\ IdleMsgs /\ IdleComp /\ IdleGulp

SpecNorm == NormInit /\ [][NextNorm]_vars

\* d is a valid decoration for the run's kind
IsDecoration(kind, d) ==
    IF kind = "img" THEN IsImgDecoration(d) ELSE IsScriptDecoration(d)

\* s ends in a valid decoration of the kind
EndsInDecoration(kind, s) ==
    \E n \in 1..Len(s) : IsDecoration(kind, SubSeq(s, n, Len(s)))

\* the run's URL is a base U followed by one valid decoration d
normDecorated ==
    /\ nIn.decorations # <<>>
    /\ IsDecoration(nIn.kind, nIn.decorations[Len(nIn.decorations)])

\* the base U of a decorated run: everything before its last decoration
normBase ==
    nIn.base \o concat(SubSeq(nIn.decorations, 1, Len(nIn.decorations) - 1))

\* C5 as stated: normalising the normalised key again returns the same key,
\* for every URL; and the key of U followed by a valid decoration is U.
C5_IdempotentAndCollapsing ==
    /\ Len(nKeys) >= 2 => nKeys[2] = nKeys[1]
    /\ (Len(nKeys) >= 1 /\ normDecorated) => nKeys[1] = normBase

\* C5 as amended: the key of U followed by a valid decoration is U, for
\* every U; normalising a key again returns the same key when the key does
\* not itself end in a valid decoration, and otherwise strips one more
\* decoration (one pass strips one decoration).
C5_CollapsingOnePass ==
    /\ (Len(nKeys) >= 1 /\ normDecorated) => nKeys[1] = normBase
    /\ (Len(nKeys) >= 1 /\ ~EndsInDecoration(nIn.kind, normUrl)) => nKeys[1] = normUrl
    /\ (Len(nKeys) >= 2 /\ ~EndsInDecoration(nIn.kind, nKeys[1])) => nKeys[2] = nKeys[1]
    /\ (Len(nKeys) >= 2 /\ EndsInDecoration(nIn.kind, nKeys[1])) =>
            /\ Len(nKeys[2]) < Len(nKeys[1])
            /\ nKeys[2] = SubSeq(nKeys[1], 1, Len(nKeys[2]))
            /\ IsDecoration(nIn.kind, SubSeq(nKeys[1], Len(nKeys[2]) + 1, Len(nKeys[1])))

C5_Witness ==
    /\ nIn.kind = "img"
    /\ nIn.base = DigitTailBase
    /\ nIn.decorations = <<Px40>>
    /\ nKeys = <<DigitTailBase, DigitTailBase>>

(***************************************************************************)
(* The page controller (indexController.js).  page is the session of one   *)
(* page: the platform's registration (controller, waiting, installing, the *)
(* workers' states) and the controller's own state (its listeners, the     *)
(* refreshing flag) with the calls it made (updateReady, reloads).         *)
(***************************************************************************)
Workers == 1..MaxWorkers

\* no worker: reg.waiting / reg.installing is null
NoWorker == 0

\* IndexController.prototype._updateReady: the hook is called with worker w
updateReady(p, w) == [p EXCEPT !.updateReady = Append(@, w)]

\* IndexController.prototype._trackInstalling: a statechange listener on w
trackInstalling(p, w) == [p EXCEPT !.tracked[w] = @ + 1]

\* one statechange listener of _trackInstalling runs for worker w
statechangeListener(p, w) ==
    IF p.workerState[w] = "installed" THEN updateReady(p, w) ELSE p

\* every statechange listener attached to w runs
RECURSIVE dispatchStatechange(_, _, _)
dispatchStatechange(p, w, n) ==
    IF n = 0 THEN p ELSE dispatchStatechange(statechangeListener(p, w), w, n - 1)

\* the register callback with no check of navigator.serviceWorker.controller
registeredNoControllerCheck(p) ==
    IF p.waiting # NoWorker THEN updateReady(p, p.waiting)
    ELSE IF p.installing # NoWorker THEN trackInstalling(p, p.installing)
    ELSE [p EXCEPT !.updatefoundListener = TRUE]

\* the callback of navigator.serviceWorker.register('/sw.js').then
registered(p) ==
    IF ~p.controller THEN p
    ELSE IF p.waiting # NoWorker THEN updateReady(p, p.waiting)
    ELSE IF p.installing # NoWorker THEN trackInstalling(p, p.installing)
    ELSE [p EXCEPT !.updatefoundListener = TRUE]

\* the updatefound listener: _trackInstalling(reg.installing)
updatefoundListener(p) ==
    IF p.updatefoundListener THEN trackInstalling(p, p.installing) ELSE p

\* a controllerchange listener with no guard
controllerchangeListenerUnguarded(p) ==
    [p EXCEPT !.reloads = @ + 1, !.refreshing = TRUE]

\* the controllerchange listener: reload once, guarded by refreshing
controllerchangeListener(p) ==
    IF p.refreshing THEN p
    ELSE [p EXCEPT !.reloads = @ + 1, !.refreshing = TRUE]

InitPage ==
    \E supported \in BOOLEAN, controller \in BOOLEAN,
       waiting \in {NoWorker, 1}, oneInstalling \in BOOLEAN :
        LET installing == IF oneInstalling THEN waiting + 1 ELSE NoWorker
        IN  /\ installing \in Workers \cup {NoWorker}
            /\ page = [pc |-> "start",
                       supported |-> supported,
                       controller |-> controller,
                       waiting |-> waiting,
                       installing |-> installing,
                       workerState |-> [w \in Workers |->
                            IF w = waiting THEN "installed"
                            ELSE IF w = installing THEN "installing"
                            ELSE "none"],
                       tracked |-> [w \in Workers |-> 0],
                       updatefoundListener |-> FALSE,
                       updateReady |-> <<>>,
                       refreshing |-> FALSE,
                       reloads |-> 0,
                       controllerChanges |-> 0]

\* new IndexController(container): _registerServiceWorker runs; without
\* navigator.serviceWorker it returns at once
Construct ==
    /\ page.pc = "start"
    /\ page' = [page EXCEPT !.pc = IF page.supported THEN "registering"
                                   ELSE "unsupported"]
    /\ UNCHANGED <<phase, caches, atActivate, purged, reqs, nIn, nKeys, msgs, comp, gulp>>

\* the register() promise resolves
Registered ==
    /\ page.pc = "registering"
    /\ page' = [registered(page) EXCEPT !.pc = "registered"]
    /\ UNCHANGED <<phase, caches, atActivate, purged, reqs, nIn, nKeys, msgs, comp, gulp>>

\* the platform finds a new worker: reg.installing is set, updatefound fires
UpdateFound(w) ==
    /\ page.pc \in {"registering", "registered"}
    /\ page.installing = NoWorker
    /\ page.workerState[w] = "none"
    /\ \A o \in 1..(w - 1) : page.workerState[o] # "none"
    /\ page' = updatefoundListener(
                  [page EXCEPT !.installing = w, !.workerState[w] = "installing"])
    /\ UNCHANGED <<phase, caches, atActivate, purged, reqs, nIn, nKeys, msgs, comp, gulp>>

\* the states a worker may move to from state s
nextWorkerStates(s) ==
    CASE s = "installing" -> {"installed", "redundant"}
      [] s = "installed" -> {"activating", "redundant"}
      [] s = "activating" -> {"activated", "redundant"}
      [] s = "activated" -> {"redundant"}
      [] OTHER -> {}

\* worker w changes state: the registration follows, statechange fires on w
StateChange(w) ==
    /\ page.pc \in {"registering", "registered"}
    /\ \E to \in nextWorkerStates(page.workerState[w]) :
          /\ to = "installed" => page.waiting = NoWorker
          /\ LET moved == [page EXCEPT
                    !.workerState[w] = to,
                    !.installing = IF @ = w THEN NoWorker ELSE @,
                    !.waiting = IF to = "installed" THEN w
                                ELSE IF @ = w THEN NoWorker ELSE @]
             IN  page' = dispatchStatechange(moved, w, moved.tracked[w])
    /\ UNCHANGED <<phase, caches, atActivate, purged, reqs, nIn, nKeys, msgs, comp, gulp>>

\* the page's controlling worker changes: controllerchange fires
ControllerChange ==
    /\ page.pc \in {"registering", "registered"}
    /\ page.controllerChanges < MaxControllerChanges
    /\ page' = controllerchangeListener(
                  [page EXCEPT !.controller = TRUE, !.controllerChanges = @ + 1])
    /\ UNCHANGED <<phase, caches, atActivate, purged, reqs, nIn, nKeys, msgs, comp, gulp>>

NextPage ==
    \/ Construct
    \/ Registered
    \/ \E w \in Workers : UpdateFound(w)
    \/ \E w \in Workers : StateChange(w)
    \/ ControllerChange

PageInit == IdleWorker /\ IdleNorm /\ InitPage /\ IdleMsgs /\ IdleComp /\ IdleGulp

SpecPage == PageInit /\ [][NextPage]_vars

\* C10: in one page session with worker support, any sequence of one or
\* more controllerchange events triggers exactly one page reload: the first
\* event reloads and every later event does nothing.
C10_ReloadOnce ==
    /\ page.controllerChanges = 0 => page.reloads = 0 /\ ~page.refreshing
    /\ page.controllerChanges >= 1 => page.reloads = 1 /\ page.refreshing

C10_Witness ==
    /\ page.supported
    /\ page.controllerChanges = 2
    /\ page.reloads = 1

\* the step in which the register() promise resolves
IsRegisteredStep == page.pc = "registering" /\ page'.pc = "registered"

\* the workers whose state changes in the step
ChangedWorkers == {w \in Workers : page'.workerState[w] # page.workerState[w]}

\* no worker is tracked
NoneTracked(p) == \A w \in Workers : p.tracked[w] = 0

\* at the resolution of register(): nothing without a controller; with a
\* controller the waiting worker is handed to the hook at once and nothing
\* is tracked, else the installing worker is tracked, else the page listens
\* for updatefound
C11_AtRegistration ==
    IsRegisteredStep =>
        IF ~page.controller
        THEN /\ page'.updateReady = page.updateReady
             /\ page'.tracked = page.tracked
             /\ ~page'.updatefoundListener
        ELSE IF page.waiting # NoWorker
        THEN /\ page'.updateReady = Append(page.updateReady, page.waiting)
             /\ page'.tracked = page.tracked
             /\ ~page'.updatefoundListener
        ELSE IF page.installing # NoWorker
        THEN /\ page'.updateReady = page.updateReady
             /\ page'.tracked = [page.tracked EXCEPT ![page.installing] = 1]
             /\ ~page'.updatefoundListener
        ELSE /\ page'.updateReady = page.updateReady
             /\ page'.tracked = page.tracked
             /\ page'.updatefoundListener

\* in every other step: the hook is called with w exactly when the tracked
\* worker w changes state and is left 'installed'; a worker becomes tracked
\* exactly when it appears as the installing worker while the page listens
\* for updatefound
C11_AfterRegistration ==
    ~IsRegisteredStep =>
        /\ \A w \in ChangedWorkers :
              IF page.tracked[w] = 1 /\ page'.workerState[w] = "installed"
              THEN page'.updateReady = Append(page.updateReady, w)
              ELSE page'.updateReady = page.updateReady
        /\ ChangedWorkers = {} => page'.updateReady = page.updateReady
        /\ page'.updatefoundListener = page.updatefoundListener
        /\ page'.tracked =
              IF /\ page.updatefoundListener
                 /\ page'.installing # page.installing
                 /\ page'.installing # NoWorker
              THEN [page.tracked EXCEPT ![page'.installing] = 1]
              ELSE page.tracked

\* C11: the update-ready hook is invoked in exactly these cases: at
\* registration, when the page is controlled and the registration has a
\* waiting worker (at once, and no installing worker is tracked); and when a
\* tracked worker (the one installing at registration, or one appearing by a
\* later updatefound) changes state and is left 'installed'.  When no worker
\* controls the page as registration resolves, the hook is never invoked and
\* no worker is ever tracked.
C11_UpdateReadyCases ==
    /\ [][C11_AtRegistration /\ C11_AfterRegistration]_vars
    /\ [](page.pc \in {"start", "registering", "unsupported"} =>
            page.updateReady = <<>> /\ NoneTracked(page))
    /\ []((page.pc = "registered" /\ ~page.updatefoundListener
            /\ NoneTracked(page)) => Len(page.updateReady) <= 1)

\* a worker found after registration was tracked, became 'installed' and was
\* handed to the hook
C11_Witness ==
    /\ page.pc = "registered"
    /\ page.updatefoundListener
    /\ \E w \in Workers :
          /\ page.tracked[w] = 1
          /\ page.workerState[w] = "installed"
          /\ page.updateReady = <<w>>

(***************************************************************************)
(* The worker's message listener (sw.js, the last listener).  msgs is the  *)
(* worker as the listener sees it: its lifecycle state, the skip-waiting   *)
(* flag of the platform, the calls of skipWaiting, the errors the listener *)
(* threw, and the data of the events received.                             *)
(***************************************************************************)
\* the result of reading a property that is not there
NoProperty == [defined |-> FALSE, value |-> ""]

\* a property holding the string v
StringProperty(v) == [defined |-> TRUE, value |-> v]

\* event.data of the messages a client may post: nothing (undefined), null,
\* objects with and without an action field, and a bare string
MessageData ==
    {[kind |-> "undefined", action |-> NoProperty],
     [kind |-> "null", action |-> NoProperty],
     [kind |-> "object", action |-> NoProperty],
     [kind |-> "object", action |-> StringProperty("skipWaiting")],
     [kind |-> "object", action |-> StringProperty("refresh")],
     [kind |-> "string", action |-> NoProperty]}

\* self.skipWaiting(): the platform's skip-waiting flag is set
skipWaiting(m) ==
    [m EXCEPT !.skipWaitingCalls = @ + 1, !.skipWaitingFlag = TRUE]

\* the message listener: reading .action of undefined or null throws a
\* TypeError; any other value is compared with 'skipWaiting'
messageListener(m, data) ==
    IF data.kind \in {"undefined", "null"}
    THEN [m EXCEPT !.errors = Append(@, "TypeError")]
    ELSE IF data.action = StringProperty("skipWaiting")
    THEN skipWaiting(m)
    ELSE m

InitMsgs ==
    msgs = [pc |-> "run",
            state |-> "installing",
            otherActive |-> TRUE,
            skipWaitingFlag |-> FALSE,
            skipWaitingCalls |-> 0,
            errors |-> <<>>,
            received |-> <<>>]

\* a client posts a message: the listener runs with its data
Message(data) ==
    /\ msgs.pc = "run"
    /\ Len(msgs.received) < MaxMessages
    /\ msgs' = messageListener([msgs EXCEPT !.received = Append(@, data)], data)
    /\ UNCHANGED <<phase, caches, atActivate, purged, reqs, nIn, nKeys, page, comp, gulp>>

\* the platform moves the worker on: installed after install, activating
\* once no other worker is active or the skip-waiting flag is set
Lifecycle ==
    /\ msgs.pc = "run"
    /\ \/ /\ msgs.state = "installing"
          /\ msgs' = [msgs EXCEPT !.state = "installed"]
       \/ /\ msgs.state = "installed"
          /\ msgs.skipWaitingFlag \/ ~msgs.otherActive
          /\ msgs' = [msgs EXCEPT !.state = "activating"]
       \/ /\ msgs.state = "activating"
          /\ msgs' = [msgs EXCEPT !.state = "activated", !.otherActive = FALSE]
    /\ UNCHANGED <<phase, caches, atActivate, purged, reqs, nIn, nKeys, page, comp, gulp>>

\* the last client of the active worker goes away
ClientsGone ==
    /\ msgs.pc = "run"
    /\ msgs.otherActive
    /\ msgs.state \in {"installing", "installed"}
    /\ msgs' = [msgs EXCEPT !.otherActive = FALSE]
    /\ UNCHANGED <<phase, caches, atActivate, purged, reqs, nIn, nKeys, page, comp, gulp>>

NextMsgs ==
    \/ \E data \in MessageData : Message(data)
    \/ Lifecycle
    \/ ClientsGone

MsgsInit == IdleWorker /\ IdleNorm /\ IdlePage /\ InitMsgs /\ IdleComp /\ IdleGulp

SpecMsgs == MsgsInit /\ [][NextMsgs]_vars

\* the messages received so far whose action is 'skipWaiting'
skipWaitingMessages ==
    {i \in 1..Len(msgs.received) :
        msgs.received[i].action = StringProperty("skipWaiting")}

\* skipWaiting was called once per message whose action is 'skipWaiting' and
\* on no other message
skipWaitingCallsMatch ==
    /\ msgs.skipWaitingCalls = Cardinality(skipWaitingMessages)
    /\ msgs.skipWaitingFlag = (skipWaitingMessages # {})

\* C12: the worker calls skipWaiting when and only when it receives a
\* message whose action is 'skipWaiting'; any other message (another action,
\* no action field, no data) is ignored: no error is raised and the worker's
\* state does not change.
C12_SkipWaitingOnlyOnAction ==
    msgs.pc = "run" => skipWaitingCallsMatch /\ msgs.errors = <<>>

(***************************************************************************)
(* The component base (BaseComponent.ts, final generation) and the example *)
(* component built on it.  A prop or attribute value is a record with the  *)
(* result of typeof and the payload of that type; texts are sequences of   *)
(* one-character strings, so that String() and Number() are computed.      *)
(* An event dispatched by emit is logged with what its listeners see: the  *)
(* props and the texts of the shadow root's children at that moment.       *)
(***************************************************************************)
\* a number value
Num(n) == [typeof |-> "number", num |-> n, nan |-> FALSE, bool |-> FALSE, str |-> <<>>]

\* the number NaN
NaN == [typeof |-> "number", num |-> 0, nan |-> TRUE, bool |-> FALSE, str |-> <<>>]

\* a boolean value
Bool(b) == [typeof |-> "boolean", num |-> 0, nan |-> FALSE, bool |-> b, str |-> <<>>]

\* a string value
Str(s) == [typeof |-> "string", num |-> 0, nan |-> FALSE, bool |-> FALSE, str |-> s]

\* null (typeof null is 'object'): an attribute that is not there
Null == [typeof |-> "object", num |-> 0, nan |-> FALSE, bool |-> FALSE, str |-> <<>>]

\* undefined: a prop that was never set
UndefinedValue == [typeof |-> "undefined", num |-> 0, nan |-> FALSE, bool |-> FALSE, str |-> <<>>]

\* the decimal digits in order
DigitChars == <<"0", "1", "2", "3", "4", "5", "6", "7", "8", "9">>

\* the white space String.prototype.trim and Number() strip
WhiteSpace == {" "}

\* the decimal numeral of a natural number
RECURSIVE numeral(_)
numeral(n) ==
    IF n < 10 THEN <<DigitChars[n + 1]>>
    ELSE Append(numeral(n \div 10), DigitChars[(n % 10) + 1])

\* String(v)
toString(v) ==
    CASE v.typeof = "number" ->
            IF v.nan THEN <<"N", "a", "N">>
            ELSE IF v.num < 0 THEN <<"-">> \o numeral(0 - v.num)
            ELSE numeral(v.num)
      [] v.typeof = "boolean" ->
            IF v.bool THEN <<"t", "r", "u", "e">> ELSE <<"f", "a", "l", "s", "e">>
      [] v.typeof = "string" -> v.str
      [] v.typeof = "object" -> <<"n", "u", "l", "l">>
      [] OTHER -> <<"u", "n", "d", "e", "f", "i", "n", "e", "d">>

\* String.prototype.trim
RECURSIVE trim(_)
trim(s) ==
    IF s = <<>> THEN s
    ELSE IF Head(s) \in WhiteSpace THEN trim(Tail(s))
    ELSE IF s[Len(s)] \in WhiteSpace THEN trim(SubSeq(s, 1, Len(s) - 1))
    ELSE s

\* the value of a string of decimal digits
RECURSIVE decimal(_)
decimal(s) ==
    IF s = <<>> THEN 0
    ELSE decimal(SubSeq(s, 1, Len(s) - 1)) * 10
           + (CHOOSE d \in 0..9 : DigitChars[d + 1] = s[Len(s)])

\* a non-empty string of decimal digits
isDigits(s) == s # <<>> /\ \A i \in DOMAIN s : s[i] \in Digits

\* Number(v) of an attribute value: null gives 0; a string is trimmed, the
\* empty string gives 0, a signed decimal integer its value, any other text
\* NaN
toNumber(v) ==
    IF v.typeof = "object" THEN Num(0)
    ELSE LET t == trim(v.str)
         IN  IF t = <<>> THEN Num(0)
             ELSE IF isDigits(t) THEN Num(decimal(t))
             ELSE IF Head(t) \in {"-", "+"} /\ isDigits(Tail(t))
             THEN Num(IF Head(t) = "-" THEN 0 - decimal(Tail(t)) ELSE decimal(Tail(t)))
             ELSE NaN

\* the text a bound node shows for v: v == null ? '' : String(v)
textOf(v) == IF v.typeof \in {"object", "undefined"} THEN <<>> ELSE toString(v)

\* the props of the component under study (those of ExampleComponent)
PropKeys == {"count", "label", "active"}

\* names of members of the instance
incrementName == <<"i", "n", "c", "r", "e", "m", "e", "n", "t">>
toggleName == <<"t", "o", "g", "g", "l", "e">>
renderName == <<"r", "e", "n", "d", "e", "r">>
propsName == <<"p", "r", "o", "p", "s">>

\* the members of the instance that are callable (typeof is 'function'); any
\* other name gives a value that is not callable (props) or undefined
CallableMembers == {incrementName, toggleName, renderName}

\* the lifecycle callbacks the custom-element registry finds on the prototype
\* when the class is defined: connectedCallback and attributeChangedCallback
\* are methods; disconnectedCallback is an instance field holding an arrow
\* function, which is not on the prototype
PrototypeCallbacks == {"connectedCallback", "attributeChangedCallback"}

\* a template is the sequence of its placeholders {{ key }} and of its
\* elements with a data-action attribute, in document order
Placeholder(key) == [item |-> "placeholder", key |-> key, action |-> <<>>]
ActionElement(a) == [item |-> "element", key |-> "", action |-> a]

\* the children of the shadow root: style and link elements, the spans of the
\* placeholders (bind, text; writes counts the assignments of textContent)
\* and the elements with data-action (action, listeners)
StyleNode(tag, s) ==
    [tag |-> tag, css |-> s, bind |-> "", text |-> <<>>, writes |-> 0,
     action |-> <<>>, listeners |-> <<>>]
SpanNode(key) ==
    [tag |-> "span", css |-> <<>>, bind |-> key, text |-> <<>>, writes |-> 0,
     action |-> <<>>, listeners |-> <<>>]
ElementNode(a) ==
    [tag |-> "button", css |-> <<>>, bind |-> "", text |-> <<>>, writes |-> 0,
     action |-> a, listeners |-> <<>>]

\* String.prototype.endsWith
endsWith(s, p) == Len(s) >= Len(p) /\ SubSeq(s, Len(s) - Len(p) + 1, Len(s)) = p

\* pathRegex.test(s): /(^\.\/|^\/|\.css$|^https?:\/\/)/i
pathRegex(s) ==
    \/ startsWith(s, <<".", "/">>)
    \/ startsWith(s, <<"/">>)
    \/ \E e \in {<<".", c1, c2, c3>> : c1 \in {"c", "C"}, c2 \in {"s", "S"},
                                       c3 \in {"s", "S"}} : endsWith(s, e)
    \/ \E h \in {<<c1, c2, c3, c4>> : c1 \in {"h", "H"}, c2 \in {"t", "T"},
                                      c3 \in {"t", "T"}, c4 \in {"p", "P"}} :
          \/ startsWith(s, h \o <<":", "/", "/">>)
          \/ \E c5 \in {"s", "S"} : startsWith(s, h \o <<c5, ":", "/", "/">>)

\* Array.prototype.filter(Boolean) on strings: the empty strings go
RECURSIVE filterBoolean(_)
filterBoolean(arr) ==
    IF arr = <<>> THEN <<>>
    ELSE IF Head(arr) = <<>> THEN filterBoolean(Tail(arr))
    ELSE <<Head(arr)>> \o filterBoolean(Tail(arr))

\* the constructor: shadow root attached, styles stored (filtered, paths
\* recognised), props proxied and given their initial values, the template
\* function taken from the template argument (kind "id", "function" or
\* "none").  docTemplate is the document's template element of that id.
construct(kind, template, initialProps, styles, observed, docHas) ==
    [pc |-> "live",
     observedAttributes |-> observed,
     stylesGiven |-> styles,
     styles |-> filterBoolean(styles),
     stylesIsPath |-> {s \in {styles[i] : i \in DOMAIN styles} : s # <<>> /\ pathRegex(s)},
     styleAdded |-> {},
     templateKind |-> kind,
     template |-> template,
     docTemplate |-> docHas,
     props |-> initialProps,
     attrs |-> [k \in PropKeys |-> Null],
     connected |-> FALSE,
     initialized |-> FALSE,
     shadow |-> <<>>,
     bindings |-> [k \in PropKeys |-> <<>>],
     templateCalls |-> 0,
     materialized |-> 0,
     inserted |-> 0,
     warnings |-> <<>>,
     events |-> <<>>,
     ops |-> 0,
     last |-> [op |-> "construct", key |-> "", value |-> UndefinedValue],
     declared |-> <<>>,
     incrementCalls |-> 0,
     propsObject |-> "proxy",
     held |-> "none"]

\* an ensureStyles that does not look at styleAdded
RECURSIVE ensureStylesFromAlways(_, _)
ensureStylesFromAlways(c, i) ==
    IF i > Len(c.styles) THEN c
    ELSE LET s == c.styles[i]
         IN  ensureStylesFromAlways(
                [c EXCEPT !.shadow = Append(@, StyleNode(
                              IF s \in c.stylesIsPath THEN "link" ELSE "style", s)),
                          !.styleAdded = @ \cup {s},
                          !.inserted = @ + 1],
                i + 1)

\* ensureStyles from the i-th style on: each style not yet added is appended
\* as a link (paths) or a style element and recorded in styleAdded
RECURSIVE ensureStylesFrom(_, _)
ensureStylesFrom(c, i) ==
    IF i > Len(c.styles) THEN c
    ELSE LET s == c.styles[i]
         IN  IF s \in c.styleAdded THEN ensureStylesFrom(c, i + 1)
             ELSE ensureStylesFrom(
                    [c EXCEPT !.shadow = Append(@, StyleNode(
                                  IF s \in c.stylesIsPath THEN "link" ELSE "style", s)),
                              !.styleAdded = @ \cup {s},
                              !.inserted = @ + 1],
                    i + 1)

\* ensureStyles
ensureStyles(c) == ensureStylesFrom(c, 1)

\* the template function is called: the function given at construction
\* returns its markup; the resolver of a template id returns the markup of
\* the document's template, or warns and returns '' when there is none; the
\* resolver useTemplateById installs for a missing template ("resolver")
\* does the same without a warning
templateFn(c) ==
    IF c.templateKind = "function"
    THEN [c |-> [c EXCEPT !.templateCalls = @ + 1], html |-> c.template]
    ELSE IF c.docTemplate.present
    THEN [c |-> [c EXCEPT !.templateCalls = @ + 1], html |-> c.docTemplate.items]
    ELSE IF c.templateKind = "resolver"
    THEN [c |-> [c EXCEPT !.templateCalls = @ + 1], html |-> <<>>]
    ELSE [c |-> [c EXCEPT !.templateCalls = @ + 1,
                          !.warnings = Append(@, "template not found")],
          html |-> <<>>]

\* shadowRoot.innerHTML += processed: the children are parsed anew (their
\* listeners are gone) and the template's nodes follow, each placeholder
\* replaced by a span with data-bind
appendProcessed(c, html) ==
    [c EXCEPT !.shadow =
        [i \in 1..Len(@) |-> [@[i] EXCEPT !.listeners = <<>>]]
        \o [i \in 1..Len(html) |->
              IF html[i].item = "placeholder" THEN SpanNode(html[i].key)
              ELSE ElementNode(html[i].action)]]

\* the forEach over querySelectorAll('[data-bind]') from the i-th child on:
\* each span is recorded under its key and shows the prop's current value
RECURSIVE collectBindings(_, _)
collectBindings(c, i) ==
    IF i > Len(c.shadow) THEN c
    ELSE IF c.shadow[i].bind = "" THEN collectBindings(c, i + 1)
    ELSE LET key == c.shadow[i].bind
         IN  collectBindings(
                [c EXCEPT !.bindings[key] = Append(@, i),
                          !.shadow[i].text = textOf(c.props[key]),
                          !.shadow[i].writes = @ + 1,
                          !.materialized = @ + 1],
                i + 1)

\* String.prototype.split on a one-character separator
RECURSIVE split(_, _)
split(s, sep) ==
    IF \A i \in DOMAIN s : s[i] # sep THEN <<s>>
    ELSE LET i == CHOOSE j \in DOMAIN s : s[j] = sep /\ \A k \in 1..(j - 1) : s[k] # sep
         IN  <<SubSeq(s, 1, i - 1)>> \o split(SubSeq(s, i + 1, Len(s)), sep)

\* the name of the property read by this[undefined]
undefinedName == <<"u", "n", "d", "e", "f", "i", "n", "e", "d">>

\* one action of a data-action list on the element at position i: the pair is
\* split on ':' and trimmed; a listener is added when the event is not empty
\* and the member is callable, else a warning is logged
bindAction(c, i, action) ==
    LET parts == split(action, ":")
        event == trim(parts[1])
        methodName == IF Len(parts) >= 2 THEN trim(parts[2]) ELSE undefinedName
    IN  IF event # <<>> /\ methodName \in CallableMembers
        THEN [c EXCEPT !.shadow[i].listeners =
                          Append(@, [event |-> event, method |-> methodName])]
        ELSE [c EXCEPT !.warnings = Append(@, "no method")]

\* a wiring of one element that gives up at the first pair it warns about
RECURSIVE bindActionListStopping(_, _, _)
bindActionListStopping(c, i, actions) ==
    IF actions = <<>> THEN c
    ELSE LET d == bindAction(c, i, Head(actions))
         IN  IF Len(d.warnings) > Len(c.warnings) THEN d
             ELSE bindActionListStopping(d, i, Tail(actions))

\* the actions of one element, in order
RECURSIVE bindActionList(_, _, _)
bindActionList(c, i, actions) ==
    IF actions = <<>> THEN c
    ELSE bindActionList(bindAction(c, i, Head(actions)), i, Tail(actions))

\* bindActions from the i-th child on: every element with data-action
RECURSIVE bindActionsFrom(_, _)
bindActionsFrom(c, i) ==
    IF i > Len(c.shadow) THEN c
    ELSE IF c.shadow[i].tag # "button" THEN bindActionsFrom(c, i + 1)
    ELSE bindActionsFrom(bindActionList(c, i, split(c.shadow[i].action, ";")), i + 1)

\* bindActions
bindActions(c) == bindActionsFrom(c, 1)

\* the nodes bound to key show the prop's current value
refresh(c, key) ==
    [c EXCEPT !.shadow =
        [i \in 1..Len(@) |->
            IF includes(c.bindings[key], i)
            THEN [@[i] EXCEPT !.text = textOf(c.props[key]), !.writes = @ + 1]
            ELSE @[i]]]

\* the keys of a set are refreshed one after another
RECURSIVE refreshKeys(_, _)
refreshKeys(c, keys) ==
    IF keys = {} THEN c
    ELSE LET k == CHOOSE x \in keys : TRUE
         IN  refreshKeys(refresh(c, k), keys \ {k})

\* render: nothing without a template function; the first time styles,
\* template, bindings and actions are set up; later only bound nodes refresh
render(c) ==
    IF c.templateKind = "none" THEN c
    ELSE IF ~c.initialized
    THEN LET called == templateFn(ensureStyles(c))
             bound == collectBindings(appendProcessed(called.c, called.html), 1)
         IN  [bindActions(bound) EXCEPT !.initialized = TRUE]
    ELSE refreshKeys(c, PropKeys)

\* updateBindings(key): a no-op before initialization
updateBindings(c, key) == IF ~c.initialized THEN c ELSE refresh(c, key)

\* a set handler that only stores the value
propsSetSilent(c, key, v) == [c EXCEPT !.props[key] = v]

\* a set handler that renders the template again on every assignment
propsSetRendering(c, key, v) ==
    render([c EXCEPT !.props[key] = v, !.initialized = FALSE])

\* an assignment this.props[key] = v: the proxy's set handler stores the
\* value and, once initialized, updates the bindings of key
propsSet(c, key, v) ==
    LET stored == [c EXCEPT !.props[key] = v]
    IN  IF c.initialized THEN updateBindings(stored, key) ELSE stored

\* the coercion of attributeChangedCallback: to a number or a boolean when
\* the prop's current value is one, else the attribute value itself
coerce(current, newValue) ==
    IF current.typeof = "number" THEN toNumber(newValue)
    ELSE IF current.typeof = "boolean" THEN Bool(newValue # Null)
    ELSE newValue

\* an attributeChangedCallback that puts a new plain object in this.props
\* and renders
attributeChangedCallbackReplacing(c, name, oldValue, newValue) ==
    IF oldValue = newValue THEN c
    ELSE render([c EXCEPT !.props[name] = coerce(c.props[name], newValue),
                          !.propsObject = "replacement"])

\* attributeChangedCallback(name, oldValue, newValue)
attributeChangedCallback(c, name, oldValue, newValue) ==
    IF oldValue = newValue THEN c
    ELSE updateBindings(
            propsSet(c, name, coerce(c.props[name], newValue)), name)

\* Element.setAttribute(name, v): the attribute is set and, for an observed
\* name, the platform calls attributeChangedCallback
setAttribute(c, name, v) ==
    LET set == [c EXCEPT !.attrs[name] = v]
    IN  IF name \in c.observedAttributes
           /\ "attributeChangedCallback" \in PrototypeCallbacks
        THEN attributeChangedCallback(set, name, c.attrs[name], v)
        ELSE set

\* Element.removeAttribute(name): nothing happens when the attribute is not
\* there
removeAttribute(c, name) ==
    IF c.attrs[name] = Null THEN c ELSE setAttribute(c, name, Null)

\* a setProp that mirrors a boolean as its string form
setPropStringMirror(c, key, value) ==
    setAttribute(propsSet(c, key, value), key, Str(toString(value)))

\* setProp(key, value): the prop is assigned and mirrored on the host
\* attribute, a boolean as presence, any other value as its string form
setProp(c, key, value) ==
    LET assigned == propsSet(c, key, value)
    IN  IF value.typeof = "boolean"
        THEN IF value.bool THEN setAttribute(assigned, key, Str(<<>>))
             ELSE removeAttribute(assigned, key)
        ELSE setAttribute(assigned, key, Str(toString(value)))

\* emit(eventName, detail): a CustomEvent is dispatched on the host
emit(c, eventName, detail) ==
    [c EXCEPT !.events = Append(@,
        [type |-> eventName, detail |-> detail,
         props |-> c.props,
         texts |-> [i \in 1..Len(c.shadow) |-> c.shadow[i].text]])]

\* the result of v + 1
plusOne(v) ==
    CASE v.typeof = "number" -> IF v.nan THEN NaN ELSE Num(v.num + 1)
      [] v.typeof = "boolean" -> Num(IF v.bool THEN 2 ELSE 1)
      [] v.typeof = "string" -> Str(v.str \o <<"1">>)
      [] v.typeof = "object" -> Num(1)
      [] OTHER -> NaN

\* the result of !v
notValue(v) ==
    CASE v.typeof = "number" -> Bool(v.nan \/ v.num = 0)
      [] v.typeof = "boolean" -> Bool(~v.bool)
      [] v.typeof = "string" -> Bool(v.str = <<>>)
      [] OTHER -> Bool(TRUE)

\* an increment that emits before it assigns
incrementEmitFirst(c) ==
    propsSet(emit(c, "incremented", plusOne(c.props["count"])),
             "count", plusOne(c.props["count"]))

\* ExampleComponent.increment
increment(c) ==
    LET assigned == propsSet(c, "count", plusOne(c.props["count"]))
    IN  emit(assigned, "incremented", assigned.props["count"])

\* ExampleComponent.toggle
toggle(c) ==
    LET assigned == propsSet(c, "active", notValue(c.props["active"]))
    IN  emit(assigned, "toggled", assigned.props["active"])

\* the function held by the disconnectedCallback field
disconnectedCallback(c) ==
    [c EXCEPT !.shadow = <<>>,
              !.initialized = FALSE,
              !.bindings = [k \in PropKeys |-> <<>>],
              !.styleAdded = {}]

\* connectedCallback
connectedCallback(c) == render(c)

\* a useTemplateById that renders whether the template is there or not
useTemplateByIdAlwaysRendering(c, tpl) ==
    IF ~tpl.present
    THEN render([c EXCEPT !.docTemplate = tpl,
                          !.warnings = Append(@, "template not found"),
                          !.templateKind = "resolver",
                          !.template = <<>>])
    ELSE render([c EXCEPT !.docTemplate = tpl,
                          !.templateKind = "function",
                          !.template = tpl.items])

\* useTemplateById(id), tpl being what document.getElementById(id) gives:
\* without an element the call warns, installs a resolver that looks the id
\* up at each call and returns; with one the template function returns the
\* markup of that element, and render runs
useTemplateById(c, tpl) ==
    IF ~tpl.present
    THEN [c EXCEPT !.docTemplate = tpl,
                   !.warnings = Append(@, "template not found"),
                   !.templateKind = "resolver",
                   !.template = <<>>]
    ELSE render([c EXCEPT !.docTemplate = tpl,
                          !.templateKind = "function",
                          !.template = tpl.items])

\* 'Counter', the initial label of ExampleComponent
CounterText == <<"C", "o", "u", "n", "t", "e", "r">>

\* the initial props of ExampleComponent
exampleProps ==
    [k \in PropKeys |->
        CASE k = "count" -> Num(0)
          [] k = "label" -> Str(CounterText)
          [] OTHER -> Bool(FALSE)]

\* ExampleComponent.observedAttributes
exampleObserved == {"count", "label", "active"}

\* a template showing every prop, with the two buttons of the example
exampleTemplate ==
    <<Placeholder("label"), Placeholder("count"), Placeholder("active"),
      ActionElement(<<"c", "l", "i", "c", "k", ":">> \o incrementName),
      ActionElement(<<"c", "l", "i", "c", "k", ":">> \o toggleName)>>

\* no template element in the document
NoDocTemplate == [present |-> FALSE, items |-> <<>>]

\* an operation on the component begins: it is counted, and noted with its
\* arguments as the last operation
begin(c, op, key, value) ==
    [c EXCEPT !.ops = @ + 1, !.last = [op |-> op, key |-> key, value |-> value]]

\* the element is inserted into the document: connectedCallback runs
Attach(bound) ==
    /\ comp.pc = "live"
    /\ comp.ops < bound
    /\ ~comp.connected
    /\ comp' = connectedCallback(
                  [begin(comp, "attach", "", UndefinedValue) EXCEPT !.connected = TRUE])
    /\ UNCHANGED <<phase, caches, atActivate, purged, reqs, nIn, nKeys, page, msgs, gulp>>

\* the element is removed from the document: the registry runs the
\* disconnectedCallback it found on the prototype, if any
Detach(bound) ==
    /\ comp.pc = "live"
    /\ comp.ops < bound
    /\ comp.connected
    /\ LET removed == [begin(comp, "detach", "", UndefinedValue)
                         EXCEPT !.connected = FALSE]
       IN  comp' = IF "disconnectedCallback" \in PrototypeCallbacks
                   THEN disconnectedCallback(removed)
                   ELSE removed
    /\ UNCHANGED <<phase, caches, atActivate, purged, reqs, nIn, nKeys, page, msgs, gulp>>

\* other code sets the host attribute name to the string v
SetAttribute(bound, name, v) ==
    /\ comp.pc = "live"
    /\ comp.ops < bound
    /\ comp' = setAttribute(begin(comp, "setAttribute", name, Str(v)), name, Str(v))
    /\ UNCHANGED <<phase, caches, atActivate, purged, reqs, nIn, nKeys, page, msgs, gulp>>

\* other code removes the host attribute name
RemoveAttribute(bound, name) ==
    /\ comp.pc = "live"
    /\ comp.ops < bound
    /\ comp.attrs[name] # Null
    /\ comp' = removeAttribute(begin(comp, "removeAttribute", name, Null), name)
    /\ UNCHANGED <<phase, caches, atActivate, purged, reqs, nIn, nKeys, page, msgs, gulp>>

\* the subclass calls setProp(key, v)
SetProp(bound, key, v) ==
    /\ comp.pc = "live"
    /\ comp.ops < bound
    /\ comp' = setProp(begin(comp, "setProp", key, v), key, v)
    /\ UNCHANGED <<phase, caches, atActivate, purged, reqs, nIn, nKeys, page, msgs, gulp>>

\* the attribute strings other code sets: '', '7', ' 12 ', 'x' and 'true'
\* (none with a fraction, an exponent, a radix prefix or 'Infinity')
AttrStrings ==
    {<<>>, <<"7">>, <<" ", "1", "2", " ">>, <<"x">>, <<"t", "r", "u", "e">>}

\* the values a subclass gives to the prop key: of the prop's declared type
PropValues(key) ==
    CASE key = "count" -> {Num(3), Num(0 - 2), NaN}
      [] key = "label" -> {Str(<<"x">>), Str(<<>>), Str(<<"7">>)}
      [] OTHER -> {Bool(TRUE), Bool(FALSE)}

\* an ExampleComponent-like instance after construction; its class observes
\* all its props or only count
InitAttr ==
    \E observed \in {exampleObserved, {"count"}} :
        comp = construct("function", exampleTemplate, exampleProps, <<>>,
                         observed, NoDocTemplate)

NextAttr ==
    \/ Attach(MaxAttrOps)
    \/ \E name \in PropKeys, v \in AttrStrings : SetAttribute(MaxAttrOps, name, v)
    \/ \E name \in PropKeys : RemoveAttribute(MaxAttrOps, name)
    \/ \E key \in PropKeys : \E v \in PropValues(key) : SetProp(MaxAttrOps, key, v)

AttrInit == IdleWorker /\ IdleNorm /\ IdlePage /\ IdleMsgs /\ InitAttr /\ IdleGulp

SpecAttr == AttrInit /\ [][NextAttr]_vars

\* every prop still has the type of its first value
typesKept == \A k \in PropKeys : comp.props[k].typeof = exampleProps[k].typeof

\* an observed boolean prop is true exactly when its attribute is present
booleansFollowPresence ==
    \A k \in comp.observedAttributes :
        comp.props[k].typeof = "boolean" =>
            comp.props[k] = Bool(comp.attrs[k] # Null)

\* an observed number prop is the numeric conversion of its attribute, NaN
\* included, and its bound nodes show the string form
numbersFollowAttribute ==
    \A k \in comp.observedAttributes :
        comp.props[k].typeof = "number" =>
            /\ comp.props[k] = toNumber(comp.attrs[k])
            /\ \A i \in DOMAIN comp.shadow :
                  comp.shadow[i].bind = k =>
                      comp.shadow[i].text = toString(comp.props[k])

\* C13: prop type coercion is sticky: after any sequence of attribute-change
\* notifications (the new value a string or null) a prop whose first value
\* is a number, a boolean or a string still has that type; a boolean prop is
\* true for any present attribute value and false when the attribute is
\* removed; a number prop is the numeric conversion of the attribute string
\* (NaN included, shown as its string form).
C13_CoercionSticky ==
    comp.pc = "live" =>
        typesKept /\ booleansFollowPresence /\ numbersFollowAttribute

\* the host attribute that mirrors v: present for true, absent for false,
\* the string form of any other value
mirrors(attr, v) ==
    IF v.typeof = "boolean" THEN (attr # Null) = v.bool
    ELSE attr = Str(toString(v))

\* C20: setProp(key, v) round-trips, the attribute-change notification of
\* an observed key included: after the call props[key] is v with v's type,
\* the nodes bound to key show the string form of v, and the host attribute
\* mirrors v.
C20_SetPropRoundTrip ==
    (comp.pc = "live" /\ comp.last.op = "setProp") =>
        LET key == comp.last.key
            v == comp.last.value
        IN  /\ comp.props[key] = v
            /\ \A i \in DOMAIN comp.shadow :
                  comp.shadow[i].bind = key => comp.shadow[i].text = toString(v)
            /\ mirrors(comp.attrs[key], v)

\* a rendered component whose observed count was set to NaN after the
\* attribute held another value
C20_Witness ==
    /\ comp.pc = "live"
    /\ comp.last = [op |-> "setProp", key |-> "count", value |-> NaN]
    /\ "count" \in comp.observedAttributes
    /\ comp.initialized
    /\ comp.ops = 3
    /\ comp.attrs["count"] = Str(<<"N", "a", "N">>)
    /\ \E i \in DOMAIN comp.shadow :
          comp.shadow[i].bind = "count" /\ comp.shadow[i].text = <<"N", "a", "N">>

\* a template with two placeholders of count and one of label
twoCountsTemplate ==
    <<Placeholder("count"), Placeholder("label"), Placeholder("count")>>

\* the templates given to the components of the model
Templates == {twoCountsTemplate, exampleTemplate}

\* an inline style 'p{}' and a style path '/a.css'
inlineCss == <<"p", "{", "}">>
pathCss == <<"/", "a", ".", "c", "s", "s">>

\* the style lists given at construction: none, a list with a duplicate, a
\* list with an empty string (an empty style sheet imported as text)
StyleLists == {<<>>, <<inlineCss, pathCss, inlineCss>>, <<<<>>, inlineCss>>}

\* other code calls render()
Render(bound) ==
    /\ comp.pc = "live"
    /\ comp.ops < bound
    /\ comp' = render(begin(comp, "render", "", UndefinedValue))
    /\ UNCHANGED <<phase, caches, atActivate, purged, reqs, nIn, nKeys, page, msgs, gulp>>

\* other code assigns props[key] = v
Assign(bound, key, v) ==
    /\ comp.pc = "live"
    /\ comp.ops < bound
    /\ comp' = propsSet(begin(comp, "assign", key, v), key, v)
    /\ UNCHANGED <<phase, caches, atActivate, purged, reqs, nIn, nKeys, page, msgs, gulp>>

\* the template element of the component's template id is added to the
\* document
AddTemplate(bound) ==
    /\ comp.pc = "live"
    /\ comp.ops < bound
    /\ comp.templateKind \in {"id", "resolver"}
    /\ ~comp.docTemplate.present
    /\ comp' = [begin(comp, "addTemplate", "", UndefinedValue)
                   EXCEPT !.docTemplate.present = TRUE]
    /\ UNCHANGED <<phase, caches, atActivate, purged, reqs, nIn, nKeys, page, msgs, gulp>>

\* other code calls the function held by the disconnectedCallback field
CallDisconnectedCallback(bound) ==
    /\ comp.pc = "live"
    /\ comp.ops < bound
    /\ comp' = disconnectedCallback(
                  begin(comp, "disconnectedCallback", "", UndefinedValue))
    /\ UNCHANGED <<phase, caches, atActivate, purged, reqs, nIn, nKeys, page, msgs, gulp>>

\* the values other code assigns to the prop key
AssignValues(key) ==
    CASE key = "count" -> {Num(1), Num(25)}
      [] key = "label" -> {Str(<<"x">>)}
      [] OTHER -> {Bool(TRUE)}

\* a component after construction: given a template function, or the id of
\* a template that the document has or does not have yet
InitRender ==
    \E template \in Templates, styles \in StyleLists,
       kind \in {"function", "id"}, present \in BOOLEAN :
        /\ kind = "function" => ~present
        /\ comp = construct(kind,
                            IF kind = "function" THEN template ELSE <<>>,
                            exampleProps, styles, exampleObserved,
                            IF kind = "function" THEN NoDocTemplate
                            ELSE [present |-> present, items |-> template])

NextRender ==
    \/ Attach(MaxRenderOps)
    \/ Detach(MaxRenderOps)
    \/ Render(MaxRenderOps)
    \/ \E key \in PropKeys : \E v \in AssignValues(key) : Assign(MaxRenderOps, key, v)
    \/ AddTemplate(MaxRenderOps)
    \/ CallDisconnectedCallback(MaxRenderOps)

RenderInit == IdleWorker /\ IdleNorm /\ IdlePage /\ IdleMsgs /\ InitRender /\ IdleGulp

SpecRender == RenderInit /\ [][NextRender]_vars

\* the markup the template function returns in state c
markupOf(c) ==
    IF c.templateKind = "function" THEN c.template
    ELSE IF c.docTemplate.present THEN c.docTemplate.items
    ELSE <<>>

\* the placeholders of key in a markup
placeholdersOf(html, key) ==
    {i \in DOMAIN html : html[i].item = "placeholder" /\ html[i].key = key}

\* the first render: it calls the template function once and creates, for
\* every prop, as many bound nodes as the template has placeholders of it
C14_FirstRender ==
    (~comp.initialized /\ comp'.initialized) =>
        /\ comp'.templateCalls = comp.templateCalls + 1
        /\ \A key \in PropKeys :
              /\ Len(comp'.bindings[key]) = Cardinality(placeholdersOf(markupOf(comp), key))
              /\ \A j \in DOMAIN comp'.bindings[key] :
                    LET node == comp'.shadow[comp'.bindings[key][j]]
                    IN  node.bind = key /\ node.writes = 1
        /\ comp'.materialized = comp.materialized
              + Cardinality({i \in DOMAIN markupOf(comp) :
                                markupOf(comp)[i].item = "placeholder"})

\* a direct assignment to a prop of a rendered component: one refresh of
\* each node bound to the prop, and nothing else changes
C14_Assignment ==
    (comp.initialized /\ comp'.ops = comp.ops + 1 /\ comp'.last.op = "assign") =>
        LET key == comp'.last.key
            v == comp'.last.value
        IN  /\ comp'.bindings = comp.bindings
            /\ comp'.templateCalls = comp.templateCalls
            /\ comp'.materialized = comp.materialized
            /\ Len(comp'.shadow) = Len(comp.shadow)
            /\ \A i \in DOMAIN comp.shadow :
                  comp'.shadow[i] =
                     IF includes(comp.bindings[key], i)
                     THEN [comp.shadow[i] EXCEPT !.text = toString(v),
                                                 !.writes = @ + 1]
                     ELSE comp.shadow[i]

\* C14: for a component whose template has k placeholders bound to one
\* prop, the first render creates exactly k bound nodes and calls the
\* template function once; thereafter n direct assignments to the prop
\* cause exactly n refreshes of those k nodes, with no new node, no change to
\* the binding table and no further call of the template function.
C14_IncrementalUpdates == [][C14_FirstRender /\ C14_Assignment]_vars

\* two nodes bound to count, created by one template call and refreshed by
\* each of three assignments
C14_Witness ==
    /\ comp.pc = "live"
    /\ comp.last.op = "assign" /\ comp.last.key = "count"
    /\ comp.templateCalls = 1
    /\ Len(comp.bindings["count"]) = 2
    /\ comp.materialized = 3
    /\ \A j \in 1..2 :
          LET node == comp.shadow[comp.bindings["count"][j]]
          IN  node.writes = 4 /\ node.text = toString(comp.last.value)

\* the style and link elements of the shadow root that hold the entry s
styleNodes(c, s) ==
    {i \in DOMAIN c.shadow : c.shadow[i].tag \in {"style", "link"} /\ c.shadow[i].css = s}

\* the distinct entries of the style list given at construction
entriesGiven(c) == {c.stylesGiven[i] : i \in DOMAIN c.stylesGiven}

\* a step of a rendered component that stays rendered inserts no style
C15_NoFurtherInsertion ==
    (comp.initialized /\ comp'.initialized) =>
        /\ comp'.inserted = comp.inserted
        /\ \A s \in entriesGiven(comp) : styleNodes(comp', s) = styleNodes(comp, s)

\* C15: style injection is exactly-once per instance: for any list of style
\* entries given at construction, after the first render the shadow root
\* holds exactly one style/link insertion per distinct entry, and further
\* render calls without a detach insert nothing more.
C15_OncePerEntry ==
    /\ [](comp.pc = "live" /\ comp.initialized =>
            \A s \in entriesGiven(comp) : Cardinality(styleNodes(comp, s)) = 1)
    /\ [][C15_NoFurtherInsertion]_vars

\* C15, amended: exactly one insertion per distinct non-empty entry (a link
\* for a path, a style element otherwise) and none for an empty string,
\* which the constructor drops; further renders insert nothing more.
C15_OncePerNonEmptyEntry ==
    /\ [](comp.pc = "live" /\ comp.initialized =>
            \A s \in entriesGiven(comp) :
                /\ Cardinality(styleNodes(comp, s)) = IF s = <<>> THEN 0 ELSE 1
                /\ \A i \in styleNodes(comp, s) :
                      comp.shadow[i].tag = IF pathRegex(s) THEN "link" ELSE "style")
    /\ [][C15_NoFurtherInsertion]_vars

\* a list with a duplicate: two insertions at the first render, none at the
\* renders after it
C15_Witness ==
    /\ comp.pc = "live"
    /\ comp.stylesGiven = <<inlineCss, pathCss, inlineCss>>
    /\ comp.initialized
    /\ comp.last.op = "render"
    /\ comp.ops >= 3
    /\ comp.inserted = 2

\* the rendering state of the component is reset
isReset(c) ==
    /\ c.shadow = <<>>
    /\ \A k \in PropKeys : c.bindings[k] = <<>>
    /\ c.styleAdded = {}
    /\ ~c.initialized

\* reattaching a detached component materializes the template once more: one
\* template call, one node per placeholder, one insertion per stored style,
\* every bound node showing the current value of its prop
C16_Reattach ==
    (comp.last.op = "detach" /\ comp'.last.op = "attach") =>
        /\ comp'.templateCalls = comp.templateCalls + 1
        /\ comp'.inserted = comp.inserted + Cardinality(entriesGiven(comp) \ {<<>>})
        /\ \A key \in PropKeys :
              /\ Len(comp'.bindings[key]) = Cardinality(placeholdersOf(markupOf(comp), key))
              /\ \A j \in DOMAIN comp'.bindings[key] :
                    comp'.shadow[comp'.bindings[key][j]].text = textOf(comp.props[key])

\* C16: after a rendered component is detached, its content, binding table,
\* injected-style set and initialized flag are reset; reattaching it runs the
\* one-time materialization exactly once more, with one node per template
\* placeholder, one insertion per distinct style, and bound nodes showing the
\* current prop values, assignments made while detached included.
C16_DetachResets ==
    /\ []((comp.pc = "live" /\ comp.last.op = "detach") => isReset(comp))
    /\ [][C16_Reattach]_vars

\* the shadow root holds the nodes of the markup html: a bound span for each
\* placeholder, and each data-action element with its listeners attached
isMaterialized(c, html) ==
    /\ \A key \in PropKeys :
          Len(c.bindings[key]) = Cardinality(placeholdersOf(html, key))
    /\ \A i \in DOMAIN html :
          html[i].item = "element" =>
              \E n \in DOMAIN c.shadow :
                  /\ c.shadow[n].action = html[i].action
                  /\ c.shadow[n].listeners # <<>>

\* C19: a component whose template id does not resolve at render time
\* renders nothing for that pass and does not throw, and it heals itself:
\* once a template with that id is in the document, a later render call on
\* the still-attached component materializes the template's placeholders
\* and action bindings.
C19_SelfHeals ==
    (comp.pc = "live" /\ comp.templateKind = "id") =>
        /\ (comp.initialized /\ ~comp.docTemplate.present) =>
              \A n \in DOMAIN comp.shadow : comp.shadow[n].tag \in {"style", "link"}
        /\ (comp.connected /\ comp.docTemplate.present /\ comp.last.op = "render") =>
              isMaterialized(comp, comp.docTemplate.items)

\* the event 'click'
clickName == <<"c", "l", "i", "c", "k">>

\* the pairs a template author may write in data-action: the text of the
\* pair, the event and the member it names, and whether the member is a
\* callable operation of the instance.  Two pairs name operations (one with
\* spaces around its parts); the others name a member that is missing
\* ('missing'), one that is not callable ('props'), no member, nothing at
\* all, or an operation with no event before the colon
DeclaredPairs ==
    {[text |-> <<"c", "l", "i", "c", "k", ":", "i", "n", "c", "r", "e", "m", "e", "n", "t">>,
      event |-> <<"c", "l", "i", "c", "k">>, method |-> <<"i", "n", "c", "r", "e", "m", "e", "n", "t">>, callable |-> TRUE],
     [text |-> <<" ", "c", "l", "i", "c", "k", " ", ":", " ", "t", "o", "g", "g", "l", "e", " ">>,
      event |-> <<"c", "l", "i", "c", "k">>, method |-> <<"t", "o", "g", "g", "l", "e">>, callable |-> TRUE],
     [text |-> <<"c", "l", "i", "c", "k", ":", "m", "i", "s", "s", "i", "n", "g">>,
      event |-> <<"c", "l", "i", "c", "k">>, method |-> <<"m", "i", "s", "s", "i", "n", "g">>, callable |-> FALSE],
     [text |-> <<"c", "l", "i", "c", "k", ":", "p", "r", "o", "p", "s">>,
      event |-> <<"c", "l", "i", "c", "k">>, method |-> <<"p", "r", "o", "p", "s">>, callable |-> FALSE],
     [text |-> <<"c", "l", "i", "c", "k">>,
      event |-> <<"c", "l", "i", "c", "k">>, method |-> <<>>, callable |-> FALSE],
     [text |-> <<>>,
      event |-> <<>>, method |-> <<>>, callable |-> FALSE],
     [text |-> <<":", "i", "n", "c", "r", "e", "m", "e", "n", "t">>,
      event |-> <<>>, method |-> <<"i", "n", "c", "r", "e", "m", "e", "n", "t">>, callable |-> TRUE]}

\* Array.prototype.join(';') of the texts of a list of pairs
RECURSIVE joinPairs(_)
joinPairs(pairs) ==
    IF pairs = <<>> THEN <<>>
    ELSE IF Len(pairs) = 1 THEN pairs[1].text
    ELSE pairs[1].text \o <<";">> \o joinPairs(Tail(pairs))

\* the method a listener was bound from runs on the instance
runMethod(c, method) ==
    CASE method = incrementName -> increment(c)
      [] method = toggleName -> toggle(c)
      [] OTHER -> render(c)

\* the listeners of an element for an event run in the order they were added
RECURSIVE runListeners(_, _, _)
runListeners(c, listeners, event) ==
    IF listeners = <<>> THEN c
    ELSE IF Head(listeners).event = event
    THEN runListeners(runMethod(c, Head(listeners).method), Tail(listeners), event)
    ELSE runListeners(c, Tail(listeners), event)

\* the user clicks the element at position n of the shadow root
Dispatch(bound, n) ==
    /\ comp.pc = "live"
    /\ comp.ops < bound
    /\ n \in DOMAIN comp.shadow
    /\ comp.shadow[n].tag = "button"
    /\ comp' = runListeners(begin(comp, "dispatch", "", Num(n)),
                            comp.shadow[n].listeners, clickName)
    /\ UNCHANGED <<phase, caches, atActivate, purged, reqs, nIn, nKeys, page, msgs, gulp>>

\* a component whose template has a placeholder and two elements with
\* data-action: the first declares up to MaxPairs pairs, the second one pair
InitActions ==
    \E first \in SeqsUpTo(DeclaredPairs, MaxPairs) :
    \E second \in {p \in DeclaredPairs : p.method \in {toggleName, propsName}} :
        /\ first # <<>>
        /\ comp = [construct("function",
                             <<Placeholder("count"),
                               ActionElement(joinPairs(first)),
                               ActionElement(second.text)>>,
                             exampleProps, <<inlineCss>>, exampleObserved,
                             NoDocTemplate)
                     EXCEPT !.declared = <<first, <<second>>>>]

NextActions ==
    \/ Attach(MaxActionOps)
    \/ Detach(MaxActionOps)
    \/ Render(MaxActionOps)
    \/ \E n \in 1..4 : Dispatch(MaxActionOps, n)

ActionsInit == IdleWorker /\ IdleNorm /\ IdlePage /\ IdleMsgs /\ InitActions /\ IdleGulp

SpecActions == ActionsInit /\ [][NextActions]_vars

\* a declared pair of the form event:method whose method is an operation
attachable(p) == p.event # <<>> /\ p.callable

\* a declared pair that is not
notAttachable(p) == ~attachable(p)

\* the listeners the declared pairs ask for: one per attachable pair, in order
expectedListeners(pairs) ==
    LET good == SelectSeq(pairs, attachable)
    IN  [j \in 1..Len(good) |-> [event |-> good[j].event, method |-> good[j].method]]

\* the position in the shadow root of the e-th element with data-action
actionNode(c, e) ==
    CHOOSE n \in DOMAIN c.shadow :
        /\ c.shadow[n].tag = "button"
        /\ Cardinality({m \in 1..n : c.shadow[m].tag = "button"}) = e

\* C17: action wiring is per pair and not fatal: on every element, each
\* event:method pair whose method is a callable operation of the instance is
\* attached exactly once, each pair whose method is missing or not callable
\* only warns, and a bad pair neither throws nor keeps the other pairs of
\* the same or of another element from being attached.
C17_WiringPerPair ==
    (comp.pc = "live" /\ comp.declared # <<>> /\ comp.initialized) =>
        /\ \A e \in DOMAIN comp.declared :
              comp.shadow[actionNode(comp, e)].listeners
                  = expectedListeners(comp.declared[e])
        /\ Len(comp.warnings)
              = Len(SelectSeq(comp.declared[1], notAttachable))
                + Len(SelectSeq(comp.declared[2], notAttachable))

\* a pair naming a missing method before a pair naming toggle: the second is
\* attached, and a click ran it
C17_Witness ==
    /\ comp.pc = "live"
    /\ comp.declared # <<>>
    /\ comp.initialized
    /\ Len(comp.declared[1]) = 2
    /\ ~attachable(comp.declared[1][1])
    /\ comp.declared[1][2].method = toggleName
    /\ ~attachable(comp.declared[2][1])
    /\ comp.shadow[actionNode(comp, 1)].listeners
          = <<[event |-> clickName, method |-> toggleName]>>
    /\ Len(comp.warnings) = 2
    /\ comp.last.op = "dispatch"
    /\ Len(comp.events) = 1

\* other code calls increment() on the component
Increment(bound) ==
    /\ comp.pc = "live"
    /\ comp.ops < bound
    /\ comp' = increment([begin(comp, "increment", "", UndefinedValue)
                             EXCEPT !.incrementCalls = @ + 1])
    /\ UNCHANGED <<phase, caches, atActivate, purged, reqs, nIn, nKeys, page, msgs, gulp>>

\* other code calls toggle() on the component
Toggle(bound) ==
    /\ comp.pc = "live"
    /\ comp.ops < bound
    /\ comp' = toggle(begin(comp, "toggle", "", UndefinedValue))
    /\ UNCHANGED <<phase, caches, atActivate, purged, reqs, nIn, nKeys, page, msgs, gulp>>

\* an ExampleComponent after construction, for each template of the model
InitExample ==
    \E template \in Templates :
        comp = construct("function", template, exampleProps,
                         <<inlineCss, inlineCss>>, exampleObserved, NoDocTemplate)

NextExample ==
    \/ Attach(MaxExampleOps)
    \/ Detach(MaxExampleOps)
    \/ Increment(MaxExampleOps)
    \/ Toggle(MaxExampleOps)

ExampleInit == IdleWorker /\ IdleNorm /\ IdlePage /\ IdleMsgs /\ InitExample /\ IdleGulp

SpecExample == ExampleInit /\ [][NextExample]_vars

\* an 'incremented' event
isIncremented(e) == e.type = "incremented"

\* C18: n successive increment calls on an ExampleComponent, counted from
\* construction, leave props.count at n and emit exactly n 'incremented'
\* events with the details 1, 2, ..., n in order, each emitted when the count
\* (and, once the component is rendered, the node bound to it) already
\* holds the new value; after the calls the bound node reads the string
\* form of n.
C18_IncrementsCounted ==
    comp.pc = "live" =>
        LET n == comp.incrementCalls
            emitted == SelectSeq(comp.events, isIncremented)
        IN  /\ comp.props["count"] = Num(n)
            /\ Len(emitted) = n
            /\ \A j \in 1..Len(emitted) :
                  /\ emitted[j].detail = Num(j)
                  /\ emitted[j].props["count"] = Num(j)
                  /\ \A i \in DOMAIN emitted[j].texts :
                        comp.shadow[i].bind = "count" =>
                            emitted[j].texts[i] = numeral(j)
            /\ comp.initialized =>
                  \A i \in DOMAIN comp.shadow :
                      comp.shadow[i].bind = "count" => comp.shadow[i].text = numeral(n)

\* three increments, the first before the component was rendered: the two
\* nodes bound to count read '3'
C18_Witness ==
    /\ comp.pc = "live"
    /\ comp.incrementCalls = 3
    /\ comp.initialized
    /\ comp.events[1].texts = <<>>
    /\ Len(comp.events[3].texts) > 0
    /\ Len(comp.bindings["count"]) = 2
    /\ \A j \in 1..2 : comp.shadow[comp.bindings["count"][j]].text = <<"3">>

\* C21: for each install, activate and fetch event, the promise the handler
\* hands to the platform (waitUntil / respondWith) does not settle before all
\* deferred work the handler started has settled, the cache write of a
\* fetched response included: no request is answered while a cache put it
\* started is still pending.
C21_SettlesAfterDeferredWork ==
    \A r \in 1..MaxRequests :
        reqs[r].pc = "done" => reqs[r].put.state # "pending"

\* two image requests with one canonical key that both missed the cache
\* (the second looked the key up before the write of the first completed)
\* and both got a response from the network
overlapping(r1, r2) ==
    /\ r1 # r2
    /\ branchOf(reqs[r1]) = "img" /\ branchOf(reqs[r2]) = "img"
    /\ storageUrlOf(reqs[r1]) = storageUrlOf(reqs[r2])
    /\ reqs[r1].lookup = Undefined /\ reqs[r2].lookup = Undefined
    /\ reqs[r1].pc = "done" /\ reqs[r2].pc = "done"
    /\ ~fetchFailed(reqs[r1]) /\ ~fetchFailed(reqs[r2])

\* each of two overlapping requests fetched once for itself, was answered
\* with its own response and wrote that response under the key
C22_EachFetchesAndWrites ==
    \A r1, r2 \in 1..MaxRequests :
        overlapping(r1, r2) =>
            /\ reqs[r1].fetched = <<[url |-> requestUrl(reqs[r1].request), ok |-> TRUE]>>
            /\ reqs[r1].response = NetworkResponse(requestUrl(reqs[r1].request), r1)
            /\ reqs[r1].response # reqs[r2].response
            /\ reqs[r1].put.state \in {"pending", "done"}
            /\ reqs[r1].put.url = storageUrlOf(reqs[r1])
            /\ reqs[r1].put.response = reqs[r1].response

\* the entry under the key of request r is the response of the write that
\* completed in the step, and stays as it is in a step that completes none
C22_LastWriteWins ==
    \A r \in 1..MaxRequests :
        (branchOf(reqs[r]) = "img" /\ reqs[r].put.state \in {"pending", "done"}) =>
            LET key == reqs[r].put.url
                completed == {o \in 1..MaxRequests :
                                 /\ reqs[o].put.state = "pending"
                                 /\ reqs'[o].put.state = "done"
                                 /\ reqs[o].put.url = key}
            IN  /\ \A o \in completed :
                      cacheMatch(entriesOf(caches', contentImgsCache), key)
                          = reqs[o].put.response
                /\ completed = {} =>
                      cacheMatch(entriesOf(caches', contentImgsCache), key)
                          = cacheMatch(entriesOf(caches, contentImgsCache), key)

\* C22: two image requests with the same canonical key that overlap while
\* the key is not cached are not deduplicated: each fetches for itself, each
\* gets its own response and each writes the key; after both complete the
\* entry under the key is the response of the write that completed last, in
\* every interleaving.
C22_NoDeduplication ==
    /\ []C22_EachFetchesAndWrites
    /\ [][C22_LastWriteWins]_vars

\* both writes completed, and the entry is the response of request 1, whose
\* write completed after that of request 2
C22_Witness ==
    /\ overlapping(1, 2)
    /\ requestUrl(reqs[1].request) # requestUrl(reqs[2].request)
    /\ reqs[1].put.state = "done" /\ reqs[2].put.state = "done"
    /\ cacheMatch(imgEntries, reqs[1].put.url) = reqs[1].response

\* other code calls useTemplateById with an id whose template element the
\* document has (tpl.present) or has not
UseTemplateById(bound, tpl) ==
    /\ comp.pc = "live"
    /\ comp.ops < bound
    /\ comp' = useTemplateById(begin(comp, "useTemplateById", "", tpl), tpl)
    /\ UNCHANGED <<phase, caches, atActivate, purged, reqs, nIn, nKeys, page, msgs, gulp>>

\* other code keeps a reference to the object this.props names
TakeReference ==
    /\ comp.pc = "live"
    /\ comp.held = "none"
    /\ comp' = [comp EXCEPT !.held = comp.propsObject]
    /\ UNCHANGED <<phase, caches, atActivate, purged, reqs, nIn, nKeys, page, msgs, gulp>>

\* other code assigns key = v through the reference it kept: the set
\* handler runs when the object is the component's proxied props; an object
\* the component no longer uses takes the value and nothing follows
AssignHeld(bound, key, v) ==
    /\ comp.pc = "live"
    /\ comp.ops < bound
    /\ comp.held # "none"
    /\ comp' = IF comp.held = comp.propsObject
               THEN propsSet(begin(comp, "assignHeld", key, v), key, v)
               ELSE begin(comp, "assignHeld", key, v)
    /\ UNCHANGED <<phase, caches, atActivate, purged, reqs, nIn, nKeys, page, msgs, gulp>>

\* the attribute strings and the prop values of the runs that mix every
\* kind of operation: a numeral and a text; a number, a text, no value, a
\* boolean
BindStrings == {<<"7">>, <<"x">>}
BindValues(key) ==
    CASE key = "count" -> {Num(3)}
      [] key = "label" -> {Str(<<"x">>), UndefinedValue}
      [] OTHER -> {Bool(TRUE)}

\* the template elements useTemplateById may be pointed at
BindTemplates ==
    {[present |-> TRUE, items |-> twoCountsTemplate],
     [present |-> FALSE, items |-> twoCountsTemplate]}

\* a component after construction, with a template function or with no
\* template at all
InitBind ==
    \E kind \in {"function", "none"} :
        comp = construct(kind,
                         IF kind = "function" THEN exampleTemplate ELSE <<>>,
                         exampleProps, <<inlineCss>>, exampleObserved,
                         NoDocTemplate)

NextBind ==
    \/ Attach(MaxBindOps)
    \/ Detach(MaxBindOps)
    \/ Render(MaxBindOps)
    \/ \E key \in PropKeys : \E v \in BindValues(key) : Assign(MaxBindOps, key, v)
    \/ \E name \in PropKeys, v \in BindStrings : SetAttribute(MaxBindOps, name, v)
    \/ \E name \in PropKeys : RemoveAttribute(MaxBindOps, name)
    \/ \E key \in PropKeys : \E v \in BindValues(key) \ {UndefinedValue} :
          SetProp(MaxBindOps, key, v)
    \/ \E tpl \in BindTemplates : UseTemplateById(MaxBindOps, tpl)
    \/ AddTemplate(MaxBindOps)
    \/ CallDisconnectedCallback(MaxBindOps)
    \/ TakeReference
    \/ \E key \in PropKeys : \E v \in BindValues(key) : AssignHeld(MaxBindOps, key, v)

BindInit == IdleWorker /\ IdleNorm /\ IdlePage /\ IdleMsgs /\ InitBind /\ IdleGulp

SpecBind == BindInit /\ [][NextBind]_vars

\* C23: in every reachable state of a component whose first render has
\* completed, each node of the binding table shows the string form of the
\* current value of its prop (empty text for null or undefined), after any
\* sequence of direct assignments, attribute-change notifications, setProp
\* calls and render calls.
C23_BoundNodesCurrent ==
    (comp.pc = "live" /\ comp.initialized) =>
        \A key \in PropKeys : \A j \in DOMAIN comp.bindings[key] :
            LET v == comp.props[key]
                node == comp.shadow[comp.bindings[key][j]]
            IN  /\ node.bind = key
                /\ node.text = IF v = Null \/ v = UndefinedValue THEN <<>>
                               ELSE toString(v)

\* a rendered component whose label, a string at first, is null after its
\* attribute was removed: the node bound to label is empty
C23_Witness ==
    /\ comp.pc = "live"
    /\ comp.initialized
    /\ comp.last.op = "removeAttribute"
    /\ comp.props["label"] = Null
    /\ \E i \in DOMAIN comp.shadow :
          comp.shadow[i].bind = "label" /\ comp.shadow[i].text = <<>>
                                        /\ comp.shadow[i].writes > 1

\* the state after a useTemplateById call
afterUseTemplateById == comp.pc = "live" /\ comp.last.op = "useTemplateById"

\* the step is a useTemplateById call
IsUseTemplateByIdStep ==
    /\ comp.pc = "live"
    /\ comp'.ops = comp.ops + 1
    /\ comp'.last.op = "useTemplateById"

\* the resolver of state c gives the markup of tpl
resolvesTo(c, tpl) ==
    /\ c.docTemplate = tpl
    /\ markupOf(c) = IF tpl.present THEN tpl.items ELSE <<>>

propsObjectKept ==
    comp.pc = "live" =>
        /\ comp.propsObject = "proxy"
        /\ comp.held \in {"none", comp.propsObject}

\* the step is an assignment through the reference other code took
IsAssignHeldStep ==
    /\ comp.pc = "live"
    /\ comp'.ops = comp.ops + 1
    /\ comp'.last.op = "assignHeld"

\* an assignment through the reference is in the component's props and in
\* the nodes bound to the key
heldAssignmentsShown ==
    IsAssignHeldStep =>
        LET key == comp'.last.key
            v == comp'.last.value
        IN  /\ comp'.props[key] = v
            /\ comp'.initialized =>
                  \A j \in DOMAIN comp'.bindings[key] :
                      comp'.shadow[comp'.bindings[key][j]].text = textOf(v)

\* C26: the props object of an instance is the same proxied object from
\* construction onwards: no base-class operation (initial-props merge,
\* attribute-change notification, setProp, render, update bindings, detach,
\* reattach, useTemplateById) replaces it, so a reference to props taken at
\* any time names the object the component reads, and assignments through
\* it keep updating bound nodes.
C26_PropsObjectKept == []propsObjectKept /\ [][heldAssignmentsShown]_vars

\* other code assigned count through its reference after an attribute
\* change on a rendered component, and the node bound to count shows it
C26_Witness ==
    /\ comp.pc = "live"
    /\ comp.last = [op |-> "assignHeld", key |-> "count", value |-> Num(3)]
    /\ comp.held = comp.propsObject
    /\ comp.initialized
    /\ \E name \in PropKeys : comp.attrs[name] # Null
    /\ comp.bindings["count"] # <<>>
    /\ \A j \in DOMAIN comp.bindings["count"] :
          comp.shadow[comp.bindings["count"][j]].text = <<"3">>

\* ---------------------------------------------------------------------
\* The build tool: the tasks clean, build (after clean) and run (after
\* build) of the gulpfile
\* ---------------------------------------------------------------------

\* the manifest of the build task: the number of paths of each of its
\* twelve dependencies, in order
dependencies == <<1, 1, 2, 1, 1, 1, 1, 1, 1, 1, 1, 1>>

\* the copy streams of the manifest: one per path of each dependency
CopyStreams ==
    {<<d, p>> : d \in DOMAIN dependencies, p \in 1..2} \cap
    {s \in (DOMAIN dependencies) \X (1..2) : s[2] <= dependencies[s[1]]}

\* the tasks the tool can be invoked with, and the tasks each one runs
\* first
TaskNames == {"clean", "build", "run"}
tasksOf(invoked) ==
    CASE invoked = "clean" -> {"clean"}
      [] invoked = "build" -> {"clean", "build"}
      [] OTHER -> {"clean", "build", "run"}

\* gulp <invoked>: every task of the invocation is waiting
InitGulp ==
    \E invoked \in TaskNames :
        gulp = [pc |-> "live",
                invoked |-> invoked,
                task |-> [t \in TaskNames |->
                             IF t \in tasksOf(invoked) THEN "waiting"
                             ELSE "absent"],
                copies |-> [s \in CopyStreams |-> "idle"],
                transpile |-> "idle",
                app |-> "none"]

\* the clean task starts: del(['src/public/lib/*']) is called and its
\* promise returned
CleanStart ==
    /\ gulp.pc = "live"
    /\ gulp.task["clean"] = "waiting"
    /\ gulp' = [gulp EXCEPT !.task["clean"] = "running"]
    /\ UNCHANGED <<phase, caches, atActivate, purged, reqs, nIn, nKeys, page, msgs, comp>>

\* the promise of del resolves: clean is complete
CleanFinish ==
    /\ gulp.pc = "live"
    /\ gulp.task["clean"] = "running"
    /\ gulp' = [gulp EXCEPT !.task["clean"] = "done"]
    /\ UNCHANGED <<phase, caches, atActivate, purged, reqs, nIn, nKeys, page, msgs, comp>>

\* the build task runs once clean is complete: the two forEach loops open
\* one copy stream per path and drop it, and the transpile stream is
\* returned to the tool
BuildStart ==
    /\ gulp.pc = "live"
    /\ gulp.task["build"] = "waiting"
    /\ gulp.task["clean"] = "done"
    /\ gulp' = [gulp EXCEPT !.task["build"] = "running",
                            !.copies = [s \in CopyStreams |-> "flowing"],
                            !.transpile = "flowing"]
    /\ UNCHANGED <<phase, caches, atActivate, purged, reqs, nIn, nKeys, page, msgs, comp>>

\* a copy stream has written its files into the library directory
CopyFinish(s) ==
    /\ gulp.pc = "live"
    /\ gulp.copies[s] = "flowing"
    /\ gulp' = [gulp EXCEPT !.copies[s] = "done"]
    /\ UNCHANGED <<phase, caches, atActivate, purged, reqs, nIn, nKeys, page, msgs, comp>>

\* the transpile stream ends: it is the stream the build task returned, so
\* build is complete
TranspileFinish ==
    /\ gulp.pc = "live"
    /\ gulp.transpile = "flowing"
    /\ gulp' = [gulp EXCEPT !.transpile = "done", !.task["build"] = "done"]
    /\ UNCHANGED <<phase, caches, atActivate, purged, reqs, nIn, nKeys, page, msgs, comp>>

\* the run task runs once build is complete: the application is launched
RunStart ==
    /\ gulp.pc = "live"
    /\ gulp.task["run"] = "waiting"
    /\ gulp.task["build"] = "done"
    /\ gulp' = [gulp EXCEPT !.task["run"] = "running",
                            !.app = "launched"]
    /\ UNCHANGED <<phase, caches, atActivate, purged, reqs, nIn, nKeys, page, msgs, comp>>

NextGulp ==
    \/ CleanStart
    \/ CleanFinish
    \/ BuildStart
    \/ \E s \in CopyStreams : CopyFinish(s)
    \/ TranspileFinish
    \/ RunStart

GulpInit ==
    IdleWorker /\ IdleNorm /\ IdlePage /\ IdleMsgs /\ IdleComp /\ InitGulp

SpecGulp == GulpInit /\ [][NextGulp]_vars

\* clean is complete before any copy or transpile starts
cleanBeforeBuild ==
    (/\ gulp.pc = "live"
     /\ \/ \E s \in CopyStreams : gulp.copies[s] # "idle"
        \/ gulp.transpile # "idle")
        => gulp.task["clean"] = "done"

\* the transpile has completed before the application is launched
transpiledBeforeLaunch ==
    (gulp.pc = "live" /\ gulp.app = "launched") => gulp.transpile = "done"

\* every manifest copy has completed before the application is launched
copiedBeforeLaunch ==
    (gulp.pc = "live" /\ gulp.app = "launched") =>
        \A s \in CopyStreams : gulp.copies[s] = "done"

\* C25: in an invocation of the run task, clean completes before any copy
\* or transpile starts, and every manifest copy into the library directory
\* as well as the script transpile has completed before the application
\* process is launched.
C25_PreparedBeforeLaunch ==
    (gulp.pc = "live" /\ gulp.invoked = "run") =>
        /\ cleanBeforeBuild
        /\ transpiledBeforeLaunch
        /\ copiedBeforeLaunch

====
